---- MODULE Spec2Model ----
(***************************************************************************)
(* Model of the redirection-chain reconstruction of ywzeng/redirection_graph *)
(* (info_extraction.py, redirection_tree.py, general_funcs.py).             *)
(*                                                                          *)
(* A URL is a sequence of tokens.  A token is a piece of URL text that the  *)
(* string operations of the code never cut: "#" is the fragment separator,  *)
(* every other token holds no '#'.  The empty string '' is <<>>.            *)
(* A Node object is its index in the arena `nodes` (object identity); the  *)
(* index 0 stands for None.                                                 *)
(***************************************************************************)
EXTENDS Integers, Sequences, FiniteSets, TLC

VARIABLES
    pc,          \* position of the run: "normalize", "resolve", "reconcile",
                 \* "build", "built", "done", "raised"
    raw_log,     \* the records of performance_log.txt, in file order
    ln,          \* extract_target_entries: lines read so far
    has_filtered,\* extract_target_entries: has_filtered
    entry_list,  \* extract_target_entries: entry_list, then get_parent_info's input
    ri,          \* get_parent_info: index i of the next entry
    url_fragment_dict,         \* get_parent_info: {no_fragment: with_fragment}
    frame_parent_dict,         \* get_parent_info: {frame_id: parent_id}
    frame_url_dict,            \* get_parent_info: {frame_id: document_url}
    loader_url_dict,           \* get_parent_info: {loader_id: frame_url}
    frame_loader_dict,         \* get_parent_info: {frame_id: loader_id}
    frame_navigate_info_list,  \* get_parent_info: pending frameRequestedNavigation
    parent_info_list,          \* get_parent_info: the causal-link records
    i,           \* build_redirection_tree: index of the next record (enumerate)
    nodes,       \* the Node objects created so far, by identity
    node_list,   \* build_redirection_tree: node_list (creation order)
    tree,        \* build_redirection_tree: tree (NoTree, or the root's identity)
    final_url,   \* modify_redirection_info: end_url, read from final_url.txt
    covering_iframe, \* modify_redirection_info: large_iframe_list[0], if any
    redirection_info, \* modify_redirection_info: what it returned
    query,       \* the last Tree Query Engine call and what it returned
    sessions     \* the sessions one process reconstructs: per session its log,
                 \* the stages done and what each returned

logVars == <<raw_log, ln, has_filtered, entry_list>>
resVars == <<ri, url_fragment_dict, frame_parent_dict, frame_url_dict, loader_url_dict,
             frame_loader_dict, frame_navigate_info_list, parent_info_list>>
treeVars == <<i, nodes, node_list, tree>>
outVars == <<final_url, covering_iframe, redirection_info>>

vars == <<pc, logVars, resVars, treeVars, outVars, query, sessions>>

-----------------------------------------------------------------------------
(* Bounds and value sets                                                    *)

\* longest causal-link record list handed to the Tree Builder on its own
MaxRecs == 3

\* most records that follow the loop A -> B -> C -> D -> B
MaxTail == 2

\* longest raw log of a session
MaxLog == 3

\* most raw records that follow the header-refresh scenario
MaxExtra == 1

\* longest raw log of one of two sessions
MaxSessionLog == 2

NoNode == 0
NoTree == 0

UrlA == <<"http://a.test/">>
UrlB == <<"http://b.test/">>
UrlBx == <<"http://b.test/", "#", "x">>
UrlC == <<"http://c.test/">>
UrlD == <<"http://d.test/">>
UrlE == <<"http://e.test/">>
NoUrl == <<>>

TreeUrls == {UrlA, UrlB, UrlBx}
TreeTimestamps == {1, 2}
TreeKinds == {"Document", "Script"}

\* The causal-link records [request_url, resource_type, parent_url,
\* parent_source, timestamp, frame_id] the Tree Builder is fed on its own:
\* records shaped like a root, records that name a parent, and two first
\* records that fail the root test of build_redirection_tree.
RootItems ==
    { <<u, k, NoUrl, "root", t, "F">> :
        u \in TreeUrls, k \in {"Document", "Download"}, t \in TreeTimestamps }

ChildItems ==
    { <<u, k, p, "script", t, "F">> :
        u \in TreeUrls, k \in TreeKinds, p \in TreeUrls, t \in TreeTimestamps }

OddItems ==
    { <<UrlA, "Document", NoUrl, "script", 1, "F">>,
      <<UrlA, "Document", UrlA, "root", 1, "F">> }

InfoItems == RootItems \cup ChildItems \cup OddItems

\* The records of a loop-back redirection A -> B -> C -> D -> B (the docstring
\* of RedirectionTree.add_node), and the records that may follow them
LoopRecords ==
    << <<UrlA, "Document", NoUrl, "root", 1, "F">>,
       <<UrlB, "Document", UrlA, "redirectResponse", 2, "F">>,
       <<UrlC, "Document", UrlB, "redirectResponse", 3, "F">>,
       <<UrlD, "Document", UrlC, "redirectResponse", 4, "F">>,
       <<UrlB, "Document", UrlD, "redirectResponse", 5, "F">> >>

TailItems ==
    { <<u, k, p, "script", 6, "F">> :
        u \in {UrlE, UrlB}, k \in TreeKinds, p \in {UrlA, UrlB, UrlD, UrlE} }

-----------------------------------------------------------------------------
(* Strings                                                                  *)

\* '#' in s
HasHash(s) == \E k \in 1..Len(s) : s[k] = "#"

\* index of the first '#' of s (s holds one)
FirstHash(s) == CHOOSE k \in 1..Len(s) : s[k] = "#" /\ \A j \in 1..(k-1) : s[j] /= "#"

\* url_parts = s.split('#'); url_parts[0]
BeforeHash(s) == IF HasHash(s) THEN SubSeq(s, 1, FirstHash(s) - 1) ELSE s

\* '#' + '#'.join(url_parts[1:])
FromHash(s) == IF HasHash(s) THEN SubSeq(s, FirstHash(s), Len(s)) ELSE <<>>

\* str.lower(), token by token
LowerToken(t) ==
    CASE t = "HTTP://B.TEST/" -> "http://b.test/"
      [] t = "X" -> "x"
      [] OTHER -> t

lower(s) == [k \in 1..Len(s) |-> LowerToken(s[k])]

\* urllib.parse.unquote, token by token ("%78" is the escape of "x")
UnquoteToken(t) ==
    CASE t = "%78" -> "x"
      [] OTHER -> t

unquote(s) == [k \in 1..Len(s) |-> UnquoteToken(s[k])]

url_cmp(url_1, url_2) == lower(unquote(url_1)) = lower(unquote(url_2))

-----------------------------------------------------------------------------
(* Raw performance-log records                                              *)
(* A record is the message_dict of extract_target_entries with its          *)
(* timestamp: method, timestamp and the params the code reads.  `has` names *)
(* the optional params present ('redirectResponse', 'urlFragment',          *)
(* 'Refresh'); a field that is absent reads NoUrl and is never looked at.   *)

RequestWillBeSent == "Network.requestWillBeSent"
ResponseReceived == "Network.responseReceived"
FrameAttached == "Page.frameAttached"
FrameDetached == "Page.frameDetached"
LoadingFailed == "Network.loadingFailed"
NavigatedWithinDocument == "Page.navigatedWithinDocument"
FrameRequestedNavigation == "Page.frameRequestedNavigation"
DownloadWillBegin == "Page.downloadWillBegin"

base_method_list ==
    << RequestWillBeSent, ResponseReceived, FrameAttached, FrameDetached, LoadingFailed,
       NavigatedWithinDocument, FrameRequestedNavigation, DownloadWillBegin >>

\* tar_method_idx_list is None in modify_redirection_info
tar_method_set == {base_method_list[k] : k \in 1..Len(base_method_list)}

ChromeError == <<"chrome-error://chromewebdata/">>

\* start_url = 'http://' + domain_sample + '/', for the domain a.test
SessionStartUrl == UrlA

\* abs(timestamp difference) < 20 in the reconciliation pass
NavWindow == 20

\* get_iframe_info and lines 551-597 of modify_redirection_info: no covering
\* iframe, or the first covering iframe's src as resolved and canonicalized
NoIframe == [t |-> "None"]
IframeSrc(url) == [t |-> "src", url |-> url]

Blank(method, timestamp) ==
    [ method |-> method, timestamp |-> timestamp, url |-> NoUrl, urlFragment |-> NoUrl,
      documentURL |-> NoUrl, frameId |-> "", parentFrameId |-> "", loaderId |-> "",
      type |-> "", initiatorType |-> "", redirectResponse |-> NoUrl, requestId |-> "",
      reason |-> "", has |-> {} ]

Request(url, documentURL, frameId, loaderId, type, initiatorType, requestId, timestamp) ==
    [Blank(RequestWillBeSent, timestamp) EXCEPT
        !.url = url, !.documentURL = documentURL, !.frameId = frameId,
        !.loaderId = loaderId, !.type = type, !.initiatorType = initiatorType,
        !.requestId = requestId]

Redirected(request, redirect_url) ==
    [request EXCEPT !.redirectResponse = redirect_url, !.has = @ \cup {"redirectResponse"}]

Refresh(timestamp) == [Blank(ResponseReceived, timestamp) EXCEPT !.has = {"Refresh"}]

Attached(frameId, parentFrameId, timestamp) ==
    [Blank(FrameAttached, timestamp) EXCEPT !.frameId = frameId, !.parentFrameId = parentFrameId]

Navigation(frameId, url, reason, timestamp) ==
    [Blank(FrameRequestedNavigation, timestamp) EXCEPT
        !.frameId = frameId, !.url = url, !.reason = reason]

Download(url, timestamp) == [Blank(DownloadWillBegin, timestamp) EXCEPT !.url = url]

\* The raw records of the sessions that are followed
reqA == Request(UrlA, UrlA, "F", "L1", "Document", "other", "R1", 100)
reqB == Request(UrlB, UrlB, "F", "L2", "Document", "other", "R2", 101)
respRefresh == Refresh(100)
navB == Navigation("F", UrlB, "httpHeaderRefresh", 100)
dlA == Download(UrlA, 102)
dlB == Download(UrlB, 102)
crash == Request(ChromeError, ChromeError, "F", "L3", "Document", "other", "R3", 102)
crashStart == Request(UrlA, ChromeError, "F", "L3", "Document", "other", "R3", 102)
reqScript == Request(UrlC, UrlA, "F", "L1", "Script", "script", "R4", 101)
reqBad == Request(UrlD, UrlA, "F", "L1", "Image", "preload", "R5", 101)
reqG == Request(UrlB, UrlB, "G", "L2", "Document", "other", "R2", 101)
attachGH == Attached("G", "H", 100)
attachGF == Attached("G", "F", 100)
redirUnreg == Redirected(Request(UrlB, UrlB, "F", "L1", "Document", "other", "R1", 101), UrlD)

Failed(requestId, timestamp) ==
    [Blank(LoadingFailed, timestamp) EXCEPT !.requestId = requestId]

\* a redirect hop keeps the request identifier of the request it answers
redirAB == Redirected(Request(UrlB, UrlB, "F", "L1", "Document", "other", "R1", 99), UrlA)
failR1 == Failed("R1", 103)
failR2 == Failed("R2", 98)
respPlain == Blank(ResponseReceived, 97)
dataReceived == Blank("Network.dataReceived", 96)

\* sessions with navigations, downloads and browser crashes
MenuPipe == {reqA, reqB, navB, dlA, dlB, crash, crashStart}

\* sessions with sub-resources, frames and redirects
MenuResolve == {reqA, reqScript, reqBad, reqG, attachGH, attachGF, redirUnreg}

\* sessions with failed loads, records of no interest and timestamps out of order
MenuNormalize == {reqA, reqB, redirAB, failR1, failR2, respPlain, dataReceived, crash}

\* the header-refresh session: A answers with a Refresh header that leads to B
RefreshScenario == <<reqA, respRefresh, navB, reqB>>

\* the sequences over menu of length up to n
RECURSIVE SeqsUpTo(_, _)
SeqsUpTo(menu, n) ==
    IF n = 0 THEN {<<>>}
    ELSE LET shorter == SeqsUpTo(menu, n - 1)
         IN  shorter \cup {Append(t, r) : t \in shorter, r \in menu}

\* the observed final URLs and the covering iframes handed to the composer
UrlBUpper == <<"HTTP://B.TEST/">>
EndUrls == {UrlA, UrlB, UrlBUpper}
LargeIframes == {NoIframe, IframeSrc(UrlB), IframeSrc(UrlC)}

-----------------------------------------------------------------------------
(* info_extraction.py: extract_target_entries                               *)

\* The failed request left in the list
RemoveFailedNothing(entries, tar_idx, failed_request_id) == entries

\* the reverse search with every request-sent record of the identifier removed
RemoveFailedEvery(entries, tar_idx, failed_request_id) ==
    SelectSeq(entries, LAMBDA e : ~(e.method = RequestWillBeSent /\ e.requestId = failed_request_id))

\* the reverse search of the failed request and entry_list.pop(tar_idx)
RECURSIVE RemoveFailed(_, _, _)
RemoveFailed(entries, tar_idx, failed_request_id) ==
    IF tar_idx < 1 THEN entries
    ELSE IF /\ entries[tar_idx].method = RequestWillBeSent
            /\ entries[tar_idx].requestId = failed_request_id
         THEN SubSeq(entries, 1, tar_idx - 1) \o SubSeq(entries, tar_idx + 1, Len(entries))
         ELSE RemoveFailed(entries, tar_idx - 1, failed_request_id)

NormalizerInit == [has_filtered |-> FALSE, entry_list |-> <<>>, stopped |-> FALSE]

\* The loop body with the break of the crash case left out: the list is
\* cleared and the later lines are read on
NormalizeLineNoBreak(st, message_dict) ==
    IF ~st.has_filtered /\ ~(message_dict.method = RequestWillBeSent /\ message_dict.url = SessionStartUrl)
    THEN st
    ELSE LET st1 == [st EXCEPT !.has_filtered = TRUE]
         IN  IF message_dict.method \notin tar_method_set THEN st1
             ELSE IF message_dict.method = ResponseReceived /\ "Refresh" \notin message_dict.has
             THEN st1
             ELSE IF message_dict.method = RequestWillBeSent /\ message_dict.documentURL = ChromeError
             THEN [st1 EXCEPT !.entry_list = <<>>]
             ELSE LET kept == IF message_dict.method = LoadingFailed
                              THEN RemoveFailed(st1.entry_list, Len(st1.entry_list),
                                                message_dict.requestId)
                              ELSE st1.entry_list
                  IN  [st1 EXCEPT !.entry_list = Append(kept, message_dict)]

\* entries with message_dict put before the first entry of a later timestamp
RECURSIVE InsertByTimestamp(_, _)
InsertByTimestamp(entries, message_dict) ==
    IF entries = <<>> THEN <<message_dict>>
    ELSE IF Head(entries).timestamp > message_dict.timestamp
    THEN <<message_dict>> \o entries
    ELSE <<Head(entries)>> \o InsertByTimestamp(Tail(entries), message_dict)

\* The loop body with the list kept sorted by timestamp
NormalizeLineSorted(st, message_dict) ==
    IF ~st.has_filtered /\ ~(message_dict.method = RequestWillBeSent /\ message_dict.url = SessionStartUrl)
    THEN st
    ELSE LET st1 == [st EXCEPT !.has_filtered = TRUE]
         IN  IF message_dict.method \notin tar_method_set THEN st1
             ELSE IF message_dict.method = ResponseReceived /\ "Refresh" \notin message_dict.has
             THEN st1
             ELSE IF message_dict.method = RequestWillBeSent /\ message_dict.documentURL = ChromeError
             THEN [st1 EXCEPT !.entry_list = <<>>, !.stopped = TRUE]
             ELSE LET kept == IF message_dict.method = LoadingFailed
                              THEN RemoveFailed(st1.entry_list, Len(st1.entry_list),
                                                message_dict.requestId)
                              ELSE st1.entry_list
                  IN  [st1 EXCEPT !.entry_list = InsertByTimestamp(kept, message_dict)]

\* The loop body with the filter of the prior crawling task's entries left out
NormalizeLineNoFilter(st, message_dict) ==
    LET st1 == [st EXCEPT !.has_filtered = TRUE]
    IN  IF message_dict.method \notin tar_method_set THEN st1
        ELSE IF message_dict.method = ResponseReceived /\ "Refresh" \notin message_dict.has
        THEN st1
        ELSE IF message_dict.method = RequestWillBeSent /\ message_dict.documentURL = ChromeError
        THEN [st1 EXCEPT !.entry_list = <<>>, !.stopped = TRUE]
        ELSE LET kept == IF message_dict.method = LoadingFailed
                         THEN RemoveFailed(st1.entry_list, Len(st1.entry_list),
                                           message_dict.requestId)
                         ELSE st1.entry_list
             IN  [st1 EXCEPT !.entry_list = Append(kept, message_dict)]

\* one iteration of the loop over the lines of performance_log.txt
NormalizeLine(st, message_dict) ==
    IF ~st.has_filtered /\ ~(message_dict.method = RequestWillBeSent /\ message_dict.url = SessionStartUrl)
    THEN st
    ELSE LET st1 == [st EXCEPT !.has_filtered = TRUE]
         IN  IF message_dict.method \notin tar_method_set THEN st1
             ELSE IF message_dict.method = ResponseReceived /\ "Refresh" \notin message_dict.has
             THEN st1
             ELSE IF message_dict.method = RequestWillBeSent /\ message_dict.documentURL = ChromeError
             THEN [st1 EXCEPT !.entry_list = <<>>, !.stopped = TRUE]
             ELSE LET kept == IF message_dict.method = LoadingFailed
                              THEN RemoveFailed(st1.entry_list, Len(st1.entry_list),
                                                message_dict.requestId)
                              ELSE st1.entry_list
                  IN  [st1 EXCEPT !.entry_list = Append(kept, message_dict)]

\* extract_target_entries, the whole loop from line ln on
RECURSIVE NormalizeFrom(_, _, _)
NormalizeFrom(st, line, log) ==
    IF line >= Len(log) \/ st.stopped THEN st
    ELSE NormalizeFrom(NormalizeLine(st, log[line + 1]), line + 1, log)

extract_target_entries(log) == NormalizeFrom(NormalizerInit, 0, log).entry_list

-----------------------------------------------------------------------------
(* info_extraction.py: get_parent_info                                      *)

\* Python dicts
EmptyDict == [k \in {} |-> k]
Put(d, key, value) == [k \in DOMAIN d \cup {key} |-> IF k = key THEN value ELSE d[k]]
Pop(d, key) == [k \in DOMAIN d \ {key} |-> d[k]]

Abs(x) == IF x < 0 THEN -x ELSE x

\* status: "run" while the loop goes on, "break" after the break of line 329,
\* "KeyError" when a dict lookup raised
ResolverInit ==
    [ parent_info_list |-> <<>>,
      url_fragment_dict |-> EmptyDict,
      frame_parent_dict |-> EmptyDict,
      frame_url_dict |-> EmptyDict,
      loader_url_dict |-> EmptyDict,
      frame_loader_dict |-> EmptyDict,
      frame_navigate_info_list |-> <<>>,
      status |-> "run" ]

\* The Document case with the frame rule (4.1.3) tried before the redirect
\* rule (4.1.2)
ResolveDocumentFrameFirst(st, idx, entry) ==
    LET request_url == IF "urlFragment" \in entry.has
                       THEN entry.url \o entry.urlFragment ELSE entry.url
        st1 == [st EXCEPT !.url_fragment_dict = Put(@, entry.url, request_url)]
        emit(parent_url, parent_source) ==
            [st1 EXCEPT
                !.parent_info_list = Append(@, <<request_url, entry.type, parent_url,
                                                 parent_source, entry.timestamp, entry.frameId>>),
                !.frame_url_dict = Put(@, entry.frameId, request_url),
                !.loader_url_dict = Put(@, entry.loaderId, request_url),
                !.frame_loader_dict = Put(@, entry.frameId, entry.loaderId)]
        raise == [st1 EXCEPT !.status = "KeyError"]
    IN  IF idx = 0 THEN emit(NoUrl, "root")
        ELSE IF entry.frameId \in DOMAIN st1.frame_parent_dict
        THEN LET first == st1.frame_parent_dict[entry.frameId]
             IN  IF first \in DOMAIN st1.frame_url_dict
                 THEN emit(st1.frame_url_dict[first], entry.initiatorType)
                 ELSE IF first \notin DOMAIN st1.frame_parent_dict THEN raise
                 ELSE LET parent_frame_id == st1.frame_parent_dict[first]
                      IN  IF parent_frame_id \notin DOMAIN st1.frame_url_dict
                          THEN st1
                          ELSE emit(st1.frame_url_dict[parent_frame_id], entry.initiatorType)
        ELSE IF "redirectResponse" \in entry.has
        THEN IF entry.redirectResponse \in DOMAIN st1.url_fragment_dict
             THEN emit(st1.url_fragment_dict[entry.redirectResponse], "redirectResponse")
             ELSE raise
        ELSE IF entry.frameId \in DOMAIN st1.frame_url_dict
        THEN emit(st1.frame_url_dict[entry.frameId], entry.initiatorType)
        ELSE raise

\* a 'requestWillBeSent' entry of type Document (4.1)
ResolveDocument(st, idx, entry) ==
    LET request_url == IF "urlFragment" \in entry.has
                       THEN entry.url \o entry.urlFragment ELSE entry.url
        st1 == [st EXCEPT !.url_fragment_dict = Put(@, entry.url, request_url)]
        emit(parent_url, parent_source) ==
            [st1 EXCEPT
                !.parent_info_list = Append(@, <<request_url, entry.type, parent_url,
                                                 parent_source, entry.timestamp, entry.frameId>>),
                !.frame_url_dict = Put(@, entry.frameId, request_url),
                !.loader_url_dict = Put(@, entry.loaderId, request_url),
                !.frame_loader_dict = Put(@, entry.frameId, entry.loaderId)]
        raise == [st1 EXCEPT !.status = "KeyError"]
    IN  IF idx = 0 THEN emit(NoUrl, "root")
        ELSE IF "redirectResponse" \in entry.has
        THEN IF entry.redirectResponse \in DOMAIN st1.url_fragment_dict
             THEN emit(st1.url_fragment_dict[entry.redirectResponse], "redirectResponse")
             ELSE raise
        ELSE IF entry.frameId \in DOMAIN st1.frame_parent_dict
        THEN LET first == st1.frame_parent_dict[entry.frameId]
             IN  IF first \in DOMAIN st1.frame_url_dict
                 THEN emit(st1.frame_url_dict[first], entry.initiatorType)
                 ELSE IF first \notin DOMAIN st1.frame_parent_dict THEN raise
                 ELSE LET parent_frame_id == st1.frame_parent_dict[first]
                      IN  IF parent_frame_id \notin DOMAIN st1.frame_url_dict
                          THEN st1
                          ELSE emit(st1.frame_url_dict[parent_frame_id], entry.initiatorType)
        ELSE IF entry.frameId \in DOMAIN st1.frame_url_dict
        THEN emit(st1.frame_url_dict[entry.frameId], entry.initiatorType)
        ELSE raise

\* The other types with the frame's URL preferred to the loader's
ResolveNonDocumentFrameFirst(st, idx, entry) ==
    IF /\ entry.loaderId \notin DOMAIN st.loader_url_dict
       /\ entry.frameId \notin DOMAIN st.frame_url_dict
    THEN st
    ELSE LET request_url == IF "urlFragment" \in entry.has
                            THEN entry.url \o entry.urlFragment ELSE entry.url
             parent_url == IF entry.frameId \in DOMAIN st.frame_url_dict
                           THEN st.frame_url_dict[entry.frameId]
                           ELSE st.loader_url_dict[entry.loaderId]
         IN  IF entry.initiatorType \in {"script", "parser", "other"}
             THEN [st EXCEPT !.parent_info_list =
                       Append(@, <<request_url, entry.type, parent_url, entry.initiatorType,
                                   entry.timestamp, entry.frameId>>)]
             ELSE [st EXCEPT !.status = "break"]

\* a 'requestWillBeSent' entry of another type (4.2)
ResolveNonDocument(st, idx, entry) ==
    IF /\ entry.loaderId \notin DOMAIN st.loader_url_dict
       /\ entry.frameId \notin DOMAIN st.frame_url_dict
    THEN st
    ELSE LET request_url == IF "urlFragment" \in entry.has
                            THEN entry.url \o entry.urlFragment ELSE entry.url
             parent_url == IF entry.loaderId \in DOMAIN st.loader_url_dict
                           THEN st.loader_url_dict[entry.loaderId]
                           ELSE st.frame_url_dict[entry.frameId]
         IN  IF entry.initiatorType \in {"script", "parser", "other"}
             THEN [st EXCEPT !.parent_info_list =
                       Append(@, <<request_url, entry.type, parent_url, entry.initiatorType,
                                   entry.timestamp, entry.frameId>>)]
             ELSE [st EXCEPT !.status = "break"]

\* The anchor case with line 350 left out: the frame keeps its document URL
ResolveNavigatedFrameKept(st, idx, entry) ==
    IF entry.frameId \notin DOMAIN st.frame_url_dict THEN st
    ELSE LET parent_url == st.frame_url_dict[entry.frameId]
             st1 == [st EXCEPT !.url_fragment_dict = Put(@, BeforeHash(entry.url), entry.url)]
         IN  IF entry.frameId \notin DOMAIN st1.frame_loader_dict
             THEN [st1 EXCEPT !.status = "KeyError"]
             ELSE [st1 EXCEPT
                      !.loader_url_dict = Put(@, st1.frame_loader_dict[entry.frameId], entry.url),
                      !.parent_info_list = Append(@, <<entry.url, "Document", parent_url,
                                                       "navigatedWithinDocument",
                                                       entry.timestamp, entry.frameId>>)]

\* The anchor case with line 355 left out: the loader keeps its document URL
ResolveNavigatedLoaderKept(st, idx, entry) ==
    IF entry.frameId \notin DOMAIN st.frame_url_dict THEN st
    ELSE LET parent_url == st.frame_url_dict[entry.frameId]
             st1 == [st EXCEPT !.url_fragment_dict = Put(@, BeforeHash(entry.url), entry.url),
                               !.frame_url_dict = Put(@, entry.frameId, entry.url)]
         IN  IF entry.frameId \notin DOMAIN st1.frame_loader_dict
             THEN [st1 EXCEPT !.status = "KeyError"]
             ELSE [st1 EXCEPT
                      !.parent_info_list = Append(@, <<entry.url, "Document", parent_url,
                                                       "navigatedWithinDocument",
                                                       entry.timestamp, entry.frameId>>)]

\* a 'navigatedWithinDocument' entry (4.)
ResolveNavigatedWithinDocument(st, idx, entry) ==
    IF entry.frameId \notin DOMAIN st.frame_url_dict THEN st
    ELSE LET parent_url == st.frame_url_dict[entry.frameId]
             st1 == [st EXCEPT !.url_fragment_dict = Put(@, BeforeHash(entry.url), entry.url),
                               !.frame_url_dict = Put(@, entry.frameId, entry.url)]
         IN  IF entry.frameId \notin DOMAIN st1.frame_loader_dict
             THEN [st1 EXCEPT !.status = "KeyError"]
             ELSE [st1 EXCEPT
                      !.loader_url_dict = Put(@, st1.frame_loader_dict[entry.frameId], entry.url),
                      !.parent_info_list = Append(@, <<entry.url, "Document", parent_url,
                                                       "navigatedWithinDocument",
                                                       entry.timestamp, entry.frameId>>)]

\* The download case scanning from the oldest record on
MarkDownloadOldest(infos, j, download_url) ==
    LET hits == {k \in 1..j : infos[k][1] = download_url}
    IN  IF hits = {} THEN infos
        ELSE [infos EXCEPT ![CHOOSE k \in hits : \A m \in hits : k <= m][2] = "Download"]

\* a 'downloadWillBegin' entry (5.): for j in range(len - 1, -1, -1)
RECURSIVE MarkDownload(_, _, _)
MarkDownload(infos, j, download_url) ==
    IF j < 1 THEN infos
    ELSE IF download_url = infos[j][1]
    THEN [infos EXCEPT ![j][2] = "Download"]
    ELSE MarkDownload(infos, j - 1, download_url)

\* The loop body with a detached frame forgotten in frame_loader_dict too
ResolveEntryDetachLoader(st, idx, entry) ==
    CASE entry.method = FrameAttached ->
            [st EXCEPT !.frame_parent_dict = Put(@, entry.frameId, entry.parentFrameId)]
      [] entry.method = FrameDetached ->
            [st EXCEPT !.frame_parent_dict = Pop(@, entry.frameId),
                       !.frame_url_dict = Pop(@, entry.frameId),
                       !.frame_loader_dict = Pop(@, entry.frameId)]
      [] entry.method = FrameRequestedNavigation ->
            [st EXCEPT !.frame_navigate_info_list =
                Append(@, <<entry.frameId, entry.url, entry.reason, entry.timestamp>>)]
      [] entry.method = RequestWillBeSent ->
            IF entry.type = "Document" THEN ResolveDocument(st, idx, entry)
            ELSE ResolveNonDocument(st, idx, entry)
      [] entry.method = NavigatedWithinDocument ->
            ResolveNavigatedWithinDocument(st, idx, entry)
      [] entry.method = DownloadWillBegin ->
            [st EXCEPT !.parent_info_list = MarkDownload(@, Len(@), entry.url)]
      [] OTHER -> st

\* The loop body with a detached frame forgotten in frame_loader_dict and
\* kept in frame_url_dict
ResolveEntryDetachLoaderOnly(st, idx, entry) ==
    CASE entry.method = FrameAttached ->
            [st EXCEPT !.frame_parent_dict = Put(@, entry.frameId, entry.parentFrameId)]
      [] entry.method = FrameDetached ->
            [st EXCEPT !.frame_parent_dict = Pop(@, entry.frameId),
                       !.frame_loader_dict = Pop(@, entry.frameId)]
      [] entry.method = FrameRequestedNavigation ->
            [st EXCEPT !.frame_navigate_info_list =
                Append(@, <<entry.frameId, entry.url, entry.reason, entry.timestamp>>)]
      [] entry.method = RequestWillBeSent ->
            IF entry.type = "Document" THEN ResolveDocument(st, idx, entry)
            ELSE ResolveNonDocument(st, idx, entry)
      [] entry.method = NavigatedWithinDocument ->
            ResolveNavigatedWithinDocument(st, idx, entry)
      [] entry.method = DownloadWillBegin ->
            [st EXCEPT !.parent_info_list = MarkDownload(@, Len(@), entry.url)]
      [] OTHER -> st

\* one iteration of the loop over entry_list; idx is i of the code
ResolveEntry(st, idx, entry) ==
    CASE entry.method = FrameAttached ->
            [st EXCEPT !.frame_parent_dict = Put(@, entry.frameId, entry.parentFrameId)]
      [] entry.method = FrameDetached ->
            [st EXCEPT !.frame_parent_dict = Pop(@, entry.frameId),
                       !.frame_url_dict = Pop(@, entry.frameId)]
      [] entry.method = FrameRequestedNavigation ->
            [st EXCEPT !.frame_navigate_info_list =
                Append(@, <<entry.frameId, entry.url, entry.reason, entry.timestamp>>)]
      [] entry.method = RequestWillBeSent ->
            IF entry.type = "Document" THEN ResolveDocument(st, idx, entry)
            ELSE ResolveNonDocument(st, idx, entry)
      [] entry.method = NavigatedWithinDocument ->
            ResolveNavigatedWithinDocument(st, idx, entry)
      [] entry.method = DownloadWillBegin ->
            [st EXCEPT !.parent_info_list = MarkDownload(@, Len(@), entry.url)]
      [] OTHER -> st

\* the loop over entry_list from entry idx on
RECURSIVE ResolveFrom(_, _, _)
ResolveFrom(st, idx, entries) ==
    IF idx >= Len(entries) \/ st.status /= "run" THEN st
    ELSE ResolveFrom(ResolveEntry(st, idx, entries[idx + 1]), idx + 1, entries)

\* the inner while of the reconciliation pass for one navigate_item
\* (navigate_item = [frame_id, navigate_url, reason, timestamp]); tar_idx
\* counts from 0 as in the code
RECURSIVE ScanMatch(_, _, _)
ScanMatch(infos, tar_idx, navigate_item) ==
    IF tar_idx >= Len(infos)
    THEN [infos |-> infos, tar_idx |-> tar_idx]
    ELSE LET info == infos[tar_idx + 1]
         IN  IF /\ info[2] = "Document"
                /\ info[6] = navigate_item[1]
                /\ info[1] = navigate_item[2]
                /\ Abs(info[5] - navigate_item[4]) < NavWindow
             THEN [infos |->
                       [infos EXCEPT ![tar_idx + 1][4] = navigate_item[3]],
                   tar_idx |-> tar_idx + 1]
             ELSE ScanMatch(infos, tar_idx + 1, navigate_item)

\* The reconciliation pass left out
ReconcileSkipped(infos, tar_idx, navigations) == infos

\* The reconciliation pass with the scan of every item started at the second
\* record
RECURSIVE ReconcileRestart(_, _, _)
ReconcileRestart(infos, tar_idx, navigations) ==
    IF navigations = <<>> THEN infos
    ELSE ReconcileRestart(ScanMatch(infos, tar_idx, Head(navigations)).infos,
                          tar_idx, Tail(navigations))

\* the reconciliation pass (tar_idx = 1; for navigate_item in ...)
RECURSIVE Reconcile(_, _, _)
Reconcile(infos, tar_idx, navigations) ==
    IF navigations = <<>> THEN infos
    ELSE LET r == ScanMatch(infos, tar_idx, Head(navigations))
         IN  Reconcile(r.infos, r.tar_idx, Tail(navigations))

\* get_parent_info: the list it returns, or raised when a lookup raised
get_parent_info(entries) ==
    LET st == ResolveFrom(ResolverInit, 0, entries)
    IN  IF st.status = "KeyError"
        THEN [raised |-> TRUE, parent_info_list |-> <<>>]
        ELSE [raised |-> FALSE,
              parent_info_list |-> Reconcile(st.parent_info_list, 1, st.frame_navigate_info_list)]

-----------------------------------------------------------------------------
(* redirection_tree.py: Node, RedirectionTree                               *)

\* Node.__init__ with the child's depth copied from the parent
NodeDepthOfParent(ns, url, url_fragment, parent, parent_source, resource_type, timestamp) ==
    [ url |-> url,
      url_fragment |-> url_fragment,
      parent |-> parent,
      parent_source |-> parent_source,
      resource_type |-> resource_type,
      timestamp |-> timestamp,
      children_list |-> <<>>,
      depth |-> IF parent /= NoNode THEN ns[parent].depth ELSE 1 ]

\* Node.__init__: the new object; ns are the objects that exist
Node(ns, url, url_fragment, parent, parent_source, resource_type, timestamp) ==
    [ url |-> url,
      url_fragment |-> url_fragment,
      parent |-> parent,
      parent_source |-> parent_source,
      resource_type |-> resource_type,
      timestamp |-> timestamp,
      children_list |-> <<>>,
      depth |-> IF parent /= NoNode THEN ns[parent].depth + 1 ELSE 1 ]

\* RedirectionTree.add_node: parent_node.children_list += [node]
add_node(ns, node) ==
    LET parent_node == ns[node].parent
    IN  [ns EXCEPT ![parent_node].children_list = Append(@, node)]

\* reversed(seq)
Reverse(s) == [k \in 1..Len(s) |-> s[Len(s) + 1 - k]]

-----------------------------------------------------------------------------
(* info_extraction.py: build_redirection_tree                               *)

\* The parent lookup scanning node_list from its oldest node
RECURSIVE MatchParentOldest(_, _, _)
MatchParentOldest(ns, rev, parent_url) ==
    IF rev = <<>> THEN NoNode
    ELSE LET last == rev[Len(rev)]
         IN  IF ns[last].url \o ns[last].url_fragment = parent_url THEN last
             ELSE MatchParentOldest(ns, SubSeq(rev, 1, Len(rev) - 1), parent_url)

\* for prior_node in node_list[::-1]: the first whose url + url_fragment is
\* parent_url, NoNode when there is none
RECURSIVE MatchParent(_, _, _)
MatchParent(ns, rev, parent_url) ==
    IF rev = <<>> THEN NoNode
    ELSE IF ns[Head(rev)].url \o ns[Head(rev)].url_fragment = parent_url THEN Head(rev)
    ELSE MatchParent(ns, Tail(rev), parent_url)

\* The loop body keyed by URL: a record whose URL already labels a node links
\* that node under the located parent instead of creating a node
BuildIterReuse(st, idx, item) ==
    IF idx = 0 /\ item[2] = "Document" /\ item[3] = NoUrl /\ item[4] = "root"
    THEN [nodes |-> Append(st.nodes, Node(st.nodes, item[1], <<>>, NoNode, item[4], item[2], item[5])),
          tree |-> Len(st.nodes) + 1,
          node_list |-> Append(st.node_list, Len(st.nodes) + 1)]
    ELSE LET parent_node == MatchParent(st.nodes, Reverse(st.node_list), item[3])
             known == MatchParent(st.nodes, Reverse(st.node_list), item[1])
         IN  IF parent_node = NoNode THEN st
             ELSE IF known /= NoNode
             THEN [st EXCEPT !.nodes[parent_node].children_list = Append(@, known)]
             ELSE LET node == Node(st.nodes, BeforeHash(item[1]), FromHash(item[1]),
                                   parent_node, item[4], item[2], item[5])
                      id == Len(st.nodes) + 1
                  IN  [nodes |-> add_node(Append(st.nodes, node), id),
                       tree |-> st.tree,
                       node_list |-> Append(st.node_list, id)]

\* The loop body with a root test that does not look at the kind of the
\* first record
BuildIterAnyKind(st, idx, item) ==
    IF idx = 0 /\ item[3] = NoUrl /\ item[4] = "root"
    THEN LET root_node == Node(st.nodes, item[1], <<>>, NoNode, item[4], item[2], item[5])
             id == Len(st.nodes) + 1
         IN  [nodes |-> Append(st.nodes, root_node),
              tree |-> id,
              node_list |-> Append(st.node_list, id)]
    ELSE LET parent_node == MatchParent(st.nodes, Reverse(st.node_list), item[3])
         IN  IF parent_node = NoNode THEN st
             ELSE LET url == BeforeHash(item[1])
                      fragment == FromHash(item[1])
                      node == Node(st.nodes, url, fragment, parent_node, item[4], item[2], item[5])
                      id == Len(st.nodes) + 1
                  IN  [nodes |-> add_node(Append(st.nodes, node), id),
                       tree |-> st.tree,
                       node_list |-> Append(st.node_list, id)]

\* one iteration of the loop of build_redirection_tree on record item
\* (item[1] is info_item[0] of the code, and so on) from the builder state st
BuildIter(st, idx, item) ==
    IF idx = 0 /\ item[2] = "Document" /\ item[3] = NoUrl /\ item[4] = "root"
    THEN LET root_node == Node(st.nodes, item[1], <<>>, NoNode, item[4], item[2], item[5])
             id == Len(st.nodes) + 1
         IN  [nodes |-> Append(st.nodes, root_node),
              tree |-> id,
              node_list |-> Append(st.node_list, id)]
    ELSE LET parent_node == MatchParent(st.nodes, Reverse(st.node_list), item[3])
         IN  IF parent_node = NoNode THEN st
             ELSE LET url == BeforeHash(item[1])
                      fragment == FromHash(item[1])
                      node == Node(st.nodes, url, fragment, parent_node, item[4], item[2], item[5])
                      id == Len(st.nodes) + 1
                  IN  [nodes |-> add_node(Append(st.nodes, node), id),
                       tree |-> st.tree,
                       node_list |-> Append(st.node_list, id)]

BuildInit == [nodes |-> <<>>, tree |-> NoTree, node_list |-> <<>>]

\* build_redirection_tree, the whole loop
RECURSIVE BuildFrom(_, _, _)
BuildFrom(st, idx, request_info_list) ==
    IF idx >= Len(request_info_list) THEN st
    ELSE BuildFrom(BuildIter(st, idx, request_info_list[idx + 1]), idx + 1, request_info_list)

build_redirection_tree(request_info_list) == BuildFrom(BuildInit, 0, request_info_list)

-----------------------------------------------------------------------------
(* redirection_tree.py: RedirectionTree.get_intermediaries                  *)

\* The arguments start and end: None, a Node object or a str
ArgNone == [t |-> "None"]
ArgNode(n) == [t |-> "Node", n |-> n]
ArgStr(s) == [t |-> "str", s |-> s]

\* not a
Falsy(a) == a.t = "None" \/ (a.t = "str" /\ a.s = <<>>)

\* the search loop of get_intermediaries (stack = [self.root]; while stack)
RECURSIVE SearchEndpoints(_, _, _, _, _, _)
SearchEndpoints(ns, stack, start_node, end_node, start_url, end_url) ==
    IF stack = <<>> THEN [start_node |-> start_node, end_node |-> end_node]
    ELSE LET cur_node == stack[Len(stack)]
             popped == SubSeq(stack, 1, Len(stack) - 1)
             cur_url == lower(ns[cur_node].url \o ns[cur_node].url_fragment)
             is_start == start_node = NoNode /\ cur_url = start_url
             is_end == ~is_start /\ end_node = NoNode /\ cur_url = end_url
             s1 == IF is_start THEN cur_node ELSE start_node
             e1 == IF is_end THEN cur_node ELSE end_node
         IN  IF s1 = NoNode /\ e1 = NoNode
             THEN [start_node |-> s1, end_node |-> e1]
             ELSE SearchEndpoints(ns, popped \o Reverse(ns[cur_node].children_list),
                                  s1, e1, start_url, end_url)

\* The backtracking loop without the final reverse
RECURSIVE BacktrackNoReverse(_, _, _, _)
BacktrackNoReverse(ns, cur_node, start_node, intermediary_list) ==
    IF cur_node = NoNode THEN <<>>
    ELSE IF cur_node = start_node THEN Append(intermediary_list, cur_node)
    ELSE BacktrackNoReverse(ns, ns[cur_node].parent, start_node, Append(intermediary_list, cur_node))

\* The backtracking loop without the clear when the root is passed
RECURSIVE BacktrackNoClear(_, _, _, _)
BacktrackNoClear(ns, cur_node, start_node, intermediary_list) ==
    IF cur_node = NoNode THEN Reverse(intermediary_list)
    ELSE IF cur_node = start_node THEN Reverse(Append(intermediary_list, cur_node))
    ELSE BacktrackNoClear(ns, ns[cur_node].parent, start_node, Append(intermediary_list, cur_node))

\* the backtracking loop of get_intermediaries, the clear and the reverse
RECURSIVE Backtrack(_, _, _, _)
Backtrack(ns, cur_node, start_node, intermediary_list) ==
    IF cur_node = NoNode THEN <<>>
    ELSE IF cur_node = start_node THEN Reverse(Append(intermediary_list, cur_node))
    ELSE Backtrack(ns, ns[cur_node].parent, start_node, Append(intermediary_list, cur_node))

get_intermediaries(ns, root, start, end) ==
    IF Falsy(end) THEN <<>>
    ELSE LET start1 == IF Falsy(start) THEN ArgNode(root) ELSE start
             start_node == IF start1.t = "Node" THEN start1.n ELSE NoNode
             start_url == IF start1.t = "Node"
                          THEN lower(ns[start1.n].url \o ns[start1.n].url_fragment)
                          ELSE lower(start1.s)
             end_node == IF end.t = "Node" THEN end.n ELSE NoNode
             end_url == IF end.t = "Node"
                        THEN lower(ns[end.n].url \o ns[end.n].url_fragment)
                        ELSE lower(end.s)
             found == SearchEndpoints(ns, <<root>>, start_node, end_node, start_url, end_url)
         IN  IF found.start_node = NoNode \/ found.end_node = NoNode THEN <<>>
             ELSE Backtrack(ns, found.end_node, found.start_node, <<>>)

-----------------------------------------------------------------------------
(* redirection_tree.py: RedirectionTree.search_node                         *)

\* The loop of search_node with the children pushed in list order, so that
\* the child found last is popped first
RECURSIVE SearchStackLatestFirst(_, _, _, _)
SearchStackLatestFirst(ns, stack, url, allow_fragment) ==
    IF stack = <<>> THEN NoNode
    ELSE LET cur_node == stack[Len(stack)]
             cur_node_url == IF allow_fragment
                             THEN ns[cur_node].url \o ns[cur_node].url_fragment
                             ELSE ns[cur_node].url
         IN  IF url_cmp(cur_node_url, url) THEN cur_node
             ELSE SearchStackLatestFirst(ns, SubSeq(stack, 1, Len(stack) - 1)
                                                 \o ns[cur_node].children_list,
                                         url, allow_fragment)

\* the loop of search_node (stack = [self.root]; while stack)
RECURSIVE SearchStack(_, _, _, _)
SearchStack(ns, stack, url, allow_fragment) ==
    IF stack = <<>> THEN NoNode
    ELSE LET cur_node == stack[Len(stack)]
             cur_node_url == IF allow_fragment
                             THEN ns[cur_node].url \o ns[cur_node].url_fragment
                             ELSE ns[cur_node].url
         IN  IF url_cmp(cur_node_url, url) THEN cur_node
             ELSE SearchStack(ns, SubSeq(stack, 1, Len(stack) - 1)
                                      \o Reverse(ns[cur_node].children_list),
                              url, allow_fragment)

\* The search that answers the root for every URL
search_node_root(ns, root, url, allow_fragment) == root

search_node(ns, root, url, allow_fragment) == SearchStack(ns, <<root>>, url, allow_fragment)

-----------------------------------------------------------------------------
(* redirection_tree.py: RedirectionTree.get_initiator_node                  *)

\* the traversal that gathers candidate_node_list (children pushed in list
\* order, the stack popped from its end)
RECURSIVE InitiatorCandidates(_, _, _, _, _)
InitiatorCandidates(ns, stack, initiator_url, due_time, candidate_node_list) ==
    IF stack = <<>> THEN candidate_node_list
    ELSE LET cur_node == stack[Len(stack)]
         IN  InitiatorCandidates(
                 ns,
                 SubSeq(stack, 1, Len(stack) - 1) \o ns[cur_node].children_list,
                 initiator_url, due_time,
                 IF url_cmp(initiator_url, ns[cur_node].url)
                    /\ ns[cur_node].timestamp <= due_time
                 THEN Append(candidate_node_list, cur_node)
                 ELSE candidate_node_list)

\* the loop over candidate_node_list[1:] that selects the closest one
RECURSIVE SelectClosest(_, _, _, _, _)
SelectClosest(ns, candidates, initiator_node, base_node, due_time) ==
    IF candidates = <<>> THEN initiator_node
    ELSE LET candidate == Head(candidates)
         IN  SelectClosest(
                 ns, Tail(candidates),
                 IF /\ due_time - ns[candidate].timestamp
                           < due_time - ns[initiator_node].timestamp
                    /\ candidate /= base_node
                 THEN candidate
                 ELSE initiator_node,
                 base_node, due_time)

get_initiator_node(ns, root, initiator_url, base_node) ==
    LET due_time == ns[base_node].timestamp
        candidate_node_list == InitiatorCandidates(ns, <<root>>, initiator_url, due_time, <<>>)
    IN  IF Len(candidate_node_list) >= 1
        THEN SelectClosest(ns, Tail(candidate_node_list), Head(candidate_node_list),
                           base_node, due_time)
        ELSE NoNode

-----------------------------------------------------------------------------
(* info_extraction.py: modify_redirection_info                              *)

\* The result: None, or the list [nodes, methods, hops, iframe or not,
\* download or not, download URL].  The model keeps the URL list and the method
\* list as lists (the code joins them with ' ' and ';') and hops as a number.
NoInfo == [t |-> "None"]

\* has_download, download_url of lines 610-615
RECURSIVE ScanDownload(_, _, _)
ScanDownload(infos, k, found) ==
    IF k > Len(infos) THEN found
    ELSE ScanDownload(infos, k + 1,
                      IF infos[k][2] = "Download"
                      THEN [has_download |-> TRUE, download_url |-> infos[k][1]]
                      ELSE found)

\* The composer without the hop of the covering iframe (hops += 1 left out)
ComposeChainHopsKept(infos, ns, root, end_url, large_iframe) ==
    IF root = NoTree THEN NoInfo
    ELSE LET end_url_node == search_node(ns, root, end_url, TRUE)
             redirection_intermediaries ==
                 IF end_url_node = NoNode THEN <<>>
                 ELSE get_intermediaries(ns, root, ArgNone, ArgNode(end_url_node))
             inter_url_list ==
                 [k \in 1..Len(redirection_intermediaries) |->
                     ns[redirection_intermediaries[k]].url
                         \o ns[redirection_intermediaries[k]].url_fragment]
             inter_method_list ==
                 [k \in 1..Len(redirection_intermediaries) |->
                     ns[redirection_intermediaries[k]].parent_source]
             iframe_node == IF large_iframe.t = "src"
                            THEN search_node(ns, root, large_iframe.url, TRUE)
                            ELSE NoNode
             download == ScanDownload(infos, 1,
                                      [has_download |-> FALSE, download_url |-> NoUrl])
         IN  IF end_url_node = NoNode \/ redirection_intermediaries = <<>> THEN NoInfo
             ELSE IF large_iframe.t = "src" /\ iframe_node = NoNode THEN NoInfo
             ELSE [ t |-> "list",
                    inter_url_list |->
                        IF large_iframe.t = "src"
                        THEN Append(inter_url_list,
                                    ns[iframe_node].url \o ns[iframe_node].url_fragment)
                        ELSE inter_url_list,
                    inter_method_list |->
                        IF large_iframe.t = "src"
                        THEN Append(inter_method_list, ns[iframe_node].parent_source)
                        ELSE inter_method_list,
                    hops |-> Len(redirection_intermediaries) - 1,
                    has_large_iframe |-> large_iframe.t = "src",
                    has_download |-> download.has_download,
                    download_url |-> download.download_url ]

\* modify_redirection_info from line 529 on: r_tree = (ns, root)
ComposeChain(infos, ns, root, end_url, large_iframe) ==
    IF root = NoTree THEN NoInfo
    ELSE LET end_url_node == search_node(ns, root, end_url, TRUE)
             redirection_intermediaries ==
                 IF end_url_node = NoNode THEN <<>>
                 ELSE get_intermediaries(ns, root, ArgNone, ArgNode(end_url_node))
             inter_url_list ==
                 [k \in 1..Len(redirection_intermediaries) |->
                     ns[redirection_intermediaries[k]].url
                         \o ns[redirection_intermediaries[k]].url_fragment]
             inter_method_list ==
                 [k \in 1..Len(redirection_intermediaries) |->
                     ns[redirection_intermediaries[k]].parent_source]
             iframe_node == IF large_iframe.t = "src"
                            THEN search_node(ns, root, large_iframe.url, TRUE)
                            ELSE NoNode
             download == ScanDownload(infos, 1,
                                      [has_download |-> FALSE, download_url |-> NoUrl])
         IN  IF end_url_node = NoNode \/ redirection_intermediaries = <<>> THEN NoInfo
             ELSE IF large_iframe.t = "src" /\ iframe_node = NoNode THEN NoInfo
             ELSE [ t |-> "list",
                    inter_url_list |->
                        IF large_iframe.t = "src"
                        THEN Append(inter_url_list,
                                    ns[iframe_node].url \o ns[iframe_node].url_fragment)
                        ELSE inter_url_list,
                    inter_method_list |->
                        IF large_iframe.t = "src"
                        THEN Append(inter_method_list, ns[iframe_node].parent_source)
                        ELSE inter_method_list,
                    hops |-> (Len(redirection_intermediaries) - 1)
                             + (IF large_iframe.t = "src" THEN 1 ELSE 0),
                    has_large_iframe |-> large_iframe.t = "src",
                    has_download |-> download.has_download,
                    download_url |-> download.download_url ]

\* modify_redirection_info on a log: raised when get_parent_info raised
modify_redirection_info(log, end_url, large_iframe) ==
    LET r == get_parent_info(extract_target_entries(log))
        b == build_redirection_tree(r.parent_info_list)
    IN  IF r.raised THEN [t |-> "raised"]
        ELSE ComposeChain(r.parent_info_list, b.nodes, b.tree, end_url, large_iframe)

-----------------------------------------------------------------------------
(* Actions                                                                  *)

NoQuery == [op |-> "none"]

\* extract_target_entries: one line of the log
NormalizeStep ==
    /\ pc = "normalize"
    /\ ln < Len(raw_log)
    /\ LET st == NormalizeLine([has_filtered |-> has_filtered, entry_list |-> entry_list,
                                stopped |-> FALSE], raw_log[ln + 1])
       IN  /\ has_filtered' = st.has_filtered
           /\ entry_list' = st.entry_list
           /\ pc' = IF st.stopped THEN "resolve" ELSE "normalize"
    /\ ln' = ln + 1
    /\ UNCHANGED <<raw_log, resVars, treeVars, outVars, query, sessions>>

\* extract_target_entries: the file is read, return entry_list
NormalizeReturn ==
    /\ pc = "normalize"
    /\ ln = Len(raw_log)
    /\ pc' = "resolve"
    /\ UNCHANGED <<logVars, resVars, treeVars, outVars, query, sessions>>

ResolverState ==
    [ parent_info_list |-> parent_info_list,
      url_fragment_dict |-> url_fragment_dict,
      frame_parent_dict |-> frame_parent_dict,
      frame_url_dict |-> frame_url_dict,
      loader_url_dict |-> loader_url_dict,
      frame_loader_dict |-> frame_loader_dict,
      frame_navigate_info_list |-> frame_navigate_info_list,
      status |-> "run" ]

\* get_parent_info: one entry of entry_list
ResolveStep ==
    /\ pc = "resolve"
    /\ ri < Len(entry_list)
    /\ LET st == ResolveEntry(ResolverState, ri, entry_list[ri + 1])
       IN  /\ parent_info_list' = st.parent_info_list
           /\ url_fragment_dict' = st.url_fragment_dict
           /\ frame_parent_dict' = st.frame_parent_dict
           /\ frame_url_dict' = st.frame_url_dict
           /\ loader_url_dict' = st.loader_url_dict
           /\ frame_loader_dict' = st.frame_loader_dict
           /\ frame_navigate_info_list' = st.frame_navigate_info_list
           /\ pc' = CASE st.status = "KeyError" -> "raised"
                      [] st.status = "break" -> "reconcile"
                      [] OTHER -> "resolve"
    /\ ri' = ri + 1
    /\ UNCHANGED <<logVars, treeVars, outVars, query, sessions>>

\* get_parent_info: the loop is left, the reconciliation pass, return
ReconcileStep ==
    /\ \/ pc = "reconcile"
       \/ pc = "resolve" /\ ri = Len(entry_list)
    /\ parent_info_list' = Reconcile(parent_info_list, 1, frame_navigate_info_list)
    /\ pc' = "build"
    /\ UNCHANGED <<logVars, ri, url_fragment_dict, frame_parent_dict, frame_url_dict,
                   loader_url_dict, frame_loader_dict, frame_navigate_info_list,
                   treeVars, outVars, query, sessions>>

\* One iteration of build_redirection_tree on the record item
Build(item) ==
    /\ pc = "build"
    /\ LET st == BuildIter([nodes |-> nodes, tree |-> tree, node_list |-> node_list], i, item)
       IN  /\ nodes' = st.nodes
           /\ tree' = st.tree
           /\ node_list' = st.node_list
    /\ i' = i + 1
    /\ UNCHANGED <<pc, logVars, resVars, outVars, query, sessions>>

\* The Tree Builder on its own: the caller's list holds item next
BuildStep(item) ==
    /\ i < MaxRecs
    /\ Build(item)

\* The Tree Builder on the loop records and what follows them
LoopStep(item) ==
    /\ i < Len(LoopRecords) + MaxTail
    /\ item \in (IF i < Len(LoopRecords) THEN {LoopRecords[i + 1]} ELSE TailItems)
    /\ Build(item)

\* The Tree Builder on the resolver's list
PipeBuildStep ==
    /\ i < Len(parent_info_list)
    /\ Build(parent_info_list[i + 1])

\* build_redirection_tree: the list is exhausted, return tree
BuildReturn ==
    /\ pc = "build"
    /\ pc' = "built"
    /\ UNCHANGED <<logVars, resVars, treeVars, outVars, query, sessions>>

PipeBuildReturn ==
    /\ i = Len(parent_info_list)
    /\ BuildReturn

\* modify_redirection_info from the tree on, for an observed final URL and the
\* covering iframe found (or not) in redirection_tags.txt
Compose(url, iframe) ==
    /\ pc = "built"
    /\ final_url' = url
    /\ covering_iframe' = iframe
    /\ redirection_info' = ComposeChain(parent_info_list, nodes, tree, url, iframe)
    /\ pc' = "done"
    /\ UNCHANGED <<logVars, resVars, treeVars, query, sessions>>

\* The arguments a caller that holds the tree's nodes can pass
NodeArgs == {ArgNone} \cup {ArgNode(n) : n \in 1..Len(nodes)}

\* A call of get_intermediaries on the built tree (the queries are read-only:
\* the model follows one call per run)
GetIntermediaries(start, end) ==
    /\ pc = "built"
    /\ tree /= NoTree
    /\ query = NoQuery
    /\ query' = [op |-> "get_intermediaries", start |-> start, end |-> end,
                 result |-> get_intermediaries(nodes, tree, start, end)]
    /\ UNCHANGED <<pc, logVars, resVars, treeVars, outVars, sessions>>

\* the initiator URLs a caller asks for
InitiatorUrls == {UrlB, UrlC, UrlE}

\* A call of get_initiator_node on the built tree
GetInitiatorNode(initiator_url, base_node) ==
    /\ pc = "built"
    /\ tree /= NoTree
    /\ query = NoQuery
    /\ query' = [op |-> "get_initiator_node", initiator_url |-> initiator_url,
                 base_node |-> base_node,
                 result |-> get_initiator_node(nodes, tree, initiator_url, base_node)]
    /\ UNCHANGED <<pc, logVars, resVars, treeVars, outVars, sessions>>

\* the state before anything ran, for the session log
InitOn(stage, log) ==
    /\ pc = stage
    /\ raw_log = log
    /\ ln = 0
    /\ has_filtered = FALSE
    /\ entry_list = <<>>
    /\ ri = 0
    /\ url_fragment_dict = EmptyDict
    /\ frame_parent_dict = EmptyDict
    /\ frame_url_dict = EmptyDict
    /\ loader_url_dict = EmptyDict
    /\ frame_loader_dict = EmptyDict
    /\ frame_navigate_info_list = <<>>
    /\ parent_info_list = <<>>
    /\ i = 0
    /\ nodes = <<>>
    /\ node_list = <<>>
    /\ tree = NoTree
    /\ final_url = NoUrl
    /\ covering_iframe = NoIframe
    /\ redirection_info = NoInfo
    /\ query = NoQuery
    /\ sessions = <<>>

(* The Tree Builder and the Tree Query Engine on their own                   *)
InitTree == InitOn("build", <<>>)

NextTree ==
    \/ \E item \in InfoItems : BuildStep(item)
    \/ BuildReturn
    \/ \E start \in NodeArgs, end \in NodeArgs : GetIntermediaries(start, end)

SpecTree == InitTree /\ [][NextTree]_vars

NextLoop ==
    \/ \E item \in TailItems \cup {LoopRecords[k] : k \in 1..Len(LoopRecords)} : LoopStep(item)
    \/ BuildReturn
    \/ \E start \in NodeArgs, end \in NodeArgs : GetIntermediaries(start, end)

SpecLoop == InitTree /\ [][NextLoop]_vars

\* The URL strings a caller that holds no node can pass
UrlArgs == {ArgStr(u) : u \in TreeUrls}

NextByUrl ==
    \/ \E item \in InfoItems : BuildStep(item)
    \/ BuildReturn
    \/ \E start \in UrlArgs, end \in UrlArgs : GetIntermediaries(start, end)

SpecByUrl == InitTree /\ [][NextByUrl]_vars

NextInitiator ==
    \/ \E item \in TailItems \cup {LoopRecords[k] : k \in 1..Len(LoopRecords)} : LoopStep(item)
    \/ BuildReturn
    \/ \E initiator_url \in InitiatorUrls, base_node \in 1..Len(nodes) :
           GetInitiatorNode(initiator_url, base_node)

SpecInitiator == InitTree /\ [][NextInitiator]_vars

(* Two sessions reconstructed by one process, stage by stage                *)

\* the locals a call starts with, whatever the previous call left in them
EnterNormalizer(left) == NormalizerInit

\* The locals of get_parent_info kept from the previous call
EnterResolverKept(left) == [left EXCEPT !.status = "run"]

EnterResolver(left) == ResolverInit

EnterBuilder(left) == BuildInit

NewSession(log) ==
    [ stage |-> "new", raw_log |-> log, entry_list |-> <<>>, parent_info_list |-> <<>>,
      r_tree |-> BuildInit ]

\* extract_target_entries for session k, from the call to the return
SessionNormalize(k) ==
    /\ pc = "sessions"
    /\ sessions[k].stage = "new"
    /\ LET st == NormalizeFrom(
                     EnterNormalizer([has_filtered |-> has_filtered, entry_list |-> entry_list,
                                      stopped |-> FALSE]),
                     0, sessions[k].raw_log)
       IN  /\ has_filtered' = st.has_filtered
           /\ entry_list' = st.entry_list
           /\ sessions' = [sessions EXCEPT ![k].stage = "normalized",
                                            ![k].entry_list = st.entry_list]
    /\ raw_log' = sessions[k].raw_log
    /\ ln' = Len(sessions[k].raw_log)
    /\ UNCHANGED <<pc, resVars, treeVars, outVars, query>>

\* get_parent_info for session k, from the call to the return or the raise
SessionResolve(k) ==
    /\ pc = "sessions"
    /\ sessions[k].stage = "normalized"
    /\ LET st == ResolveFrom(EnterResolver(ResolverState), 0, sessions[k].entry_list)
           returned == Reconcile(st.parent_info_list, 1, st.frame_navigate_info_list)
       IN  /\ url_fragment_dict' = st.url_fragment_dict
           /\ frame_parent_dict' = st.frame_parent_dict
           /\ frame_url_dict' = st.frame_url_dict
           /\ loader_url_dict' = st.loader_url_dict
           /\ frame_loader_dict' = st.frame_loader_dict
           /\ frame_navigate_info_list' = st.frame_navigate_info_list
           /\ IF st.status = "KeyError"
              THEN /\ parent_info_list' = st.parent_info_list
                   /\ sessions' = [sessions EXCEPT ![k].stage = "raised"]
              ELSE /\ parent_info_list' = returned
                   /\ sessions' = [sessions EXCEPT ![k].stage = "resolved",
                                                    ![k].parent_info_list = returned]
    /\ ri' = Len(sessions[k].entry_list)
    /\ UNCHANGED <<pc, logVars, treeVars, outVars, query>>

\* build_redirection_tree for session k, from the call to the return
SessionBuild(k) ==
    /\ pc = "sessions"
    /\ sessions[k].stage = "resolved"
    /\ LET st == BuildFrom(EnterBuilder([nodes |-> nodes, tree |-> tree,
                                         node_list |-> node_list]),
                           0, sessions[k].parent_info_list)
       IN  /\ nodes' = st.nodes
           /\ tree' = st.tree
           /\ node_list' = st.node_list
           /\ sessions' = [sessions EXCEPT ![k].stage = "built", ![k].r_tree = st]
    /\ i' = Len(sessions[k].parent_info_list)
    /\ UNCHANGED <<pc, logVars, resVars, outVars, query>>

\* sessions with stale records, frames and sub-frames
MenuSessions == {reqA, reqB, reqG, attachGF}

InitSessions ==
    /\ \E log1 \in SeqsUpTo(MenuSessions, MaxSessionLog),
          log2 \in SeqsUpTo(MenuSessions, MaxSessionLog) :
           sessions = <<NewSession(log1), NewSession(log2)>>
    /\ pc = "sessions"
    /\ raw_log = <<>>
    /\ ln = 0
    /\ has_filtered = FALSE
    /\ entry_list = <<>>
    /\ ri = 0
    /\ url_fragment_dict = EmptyDict
    /\ frame_parent_dict = EmptyDict
    /\ frame_url_dict = EmptyDict
    /\ loader_url_dict = EmptyDict
    /\ frame_loader_dict = EmptyDict
    /\ frame_navigate_info_list = <<>>
    /\ parent_info_list = <<>>
    /\ i = 0
    /\ nodes = <<>>
    /\ node_list = <<>>
    /\ tree = NoTree
    /\ final_url = NoUrl
    /\ covering_iframe = NoIframe
    /\ redirection_info = NoInfo
    /\ query = NoQuery

NextSessions ==
    \/ \E k \in 1..2 : SessionNormalize(k)
    \/ \E k \in 1..2 : SessionResolve(k)
    \/ \E k \in 1..2 : SessionBuild(k)

SpecSessions == InitSessions /\ [][NextSessions]_vars

(* The pipeline of modify_redirection_info on a session log                  *)
NextPipe ==
    \/ NormalizeStep
    \/ NormalizeReturn
    \/ ResolveStep
    \/ ReconcileStep
    \/ PipeBuildStep
    \/ PipeBuildReturn
    \/ \E url \in EndUrls, iframe \in LargeIframes : Compose(url, iframe)

InitPipe == \E log \in SeqsUpTo(MenuPipe, MaxLog) : InitOn("normalize", log)

SpecPipe == InitPipe /\ [][NextPipe]_vars

InitResolve == \E log \in SeqsUpTo(MenuResolve, MaxLog) : InitOn("normalize", log)

SpecResolve == InitResolve /\ [][NextPipe]_vars

InitNormalize == \E log \in SeqsUpTo(MenuNormalize, MaxLog) : InitOn("normalize", log)

SpecNormalize == InitNormalize /\ [][NextPipe]_vars

InitRefresh ==
    \E extra \in SeqsUpTo(MenuPipe, MaxExtra) : InitOn("normalize", RefreshScenario \o extra)

SpecRefresh == InitRefresh /\ [][NextPipe]_vars

-----------------------------------------------------------------------------
(* Properties of the Tree Builder and of get_intermediaries                 *)

NodeIds == 1..Len(nodes)

FullUrl(n) == nodes[n].url \o nodes[n].url_fragment

\* how often node n stands in the child list of node p
ChildCount(p, n) ==
    Cardinality({k \in 1..Len(nodes[p].children_list) : nodes[p].children_list[k] = n})

Children(p) == {nodes[p].children_list[k] : k \in 1..Len(nodes[p].children_list)}

\* following parent pointers from n reaches the root without meeting a node twice
RECURSIVE ClimbsToRoot(_, _)
ClimbsToRoot(n, seen) ==
    IF n = NoNode \/ n \in seen THEN FALSE
    ELSE IF n = tree THEN TRUE
    ELSE ClimbsToRoot(nodes[n].parent, seen \cup {n})

\* the nodes below x, by the child lists
RECURSIVE Below(_, _)
Below(x, fuel) ==
    IF fuel = 0 THEN {}
    ELSE Children(x) \cup UNION {Below(c, fuel - 1) : c \in Children(x)}

IsDescendant(x, y) == y \in Below(x, Len(nodes))

\* C1: whatever records were fed, the structure is a strict tree: every node
\* but the root has one parent, stands once in that parent's child list and in
\* no other child list, the parent pointers of every node lead to the root
\* without a repeat, and every record that found its parent made a node of its
\* own (node_list holds each node once), also when its URL labels a node already.
C1_StrictTree ==
    /\ tree = NoTree => nodes = <<>>
    /\ node_list = [k \in NodeIds |-> k]
    /\ tree /= NoTree =>
        /\ tree \in NodeIds
        /\ nodes[tree].parent = NoNode
        /\ \A p \in NodeIds : ChildCount(p, tree) = 0
        /\ \A n \in NodeIds \ {tree} :
            /\ nodes[n].parent \in NodeIds
            /\ ChildCount(nodes[n].parent, n) = 1
            /\ \A p \in NodeIds \ {nodes[n].parent} : ChildCount(p, n) = 0
        /\ \A n \in NodeIds : ClimbsToRoot(n, {})
        /\ \A p \in NodeIds : Children(p) \subseteq NodeIds

\* a URL that labels two nodes, one below the other, each with its own
\* timestamp and its own child list
C1_Witness ==
    /\ pc = "built"
    /\ \E n \in NodeIds, m \in NodeIds :
        /\ n /= m
        /\ FullUrl(n) = FullUrl(m)
        /\ nodes[m].parent = n
        /\ nodes[n].timestamp /= nodes[m].timestamp
        /\ nodes[n].children_list /= nodes[m].children_list

\* C2: in a built tree the root has depth 1, every other node has the depth of
\* its parent plus one, and the root is the one node without a parent.
C2_Depth ==
    tree /= NoTree =>
        /\ nodes[tree].depth = 1
        /\ \A n \in NodeIds \ {tree} :
            /\ nodes[n].parent /= NoNode
            /\ nodes[n].depth = nodes[nodes[n].parent].depth + 1
        /\ Cardinality({n \in NodeIds : nodes[n].parent = NoNode}) = 1

\* a built tree that is a chain of three nodes
C2_Witness ==
    /\ pc = "built"
    /\ Len(nodes) = 3
    /\ \E n \in NodeIds : nodes[n].depth = 3 /\ nodes[nodes[n].parent].depth = 2

\* C4: get_intermediaries(root, end) and get_intermediaries(end=end) return,
\* for a node end of the tree, the path root .. end: first the root, last end,
\* each consecutive pair a parent and one of its children, depth(end) long.
C4_PathFromRoot ==
    ( /\ query.op = "get_intermediaries"
      /\ query.end.t = "Node"
      /\ query.start \in {ArgNone, ArgNode(tree)} ) =>
        LET r == query.result
        IN  /\ Len(r) = nodes[query.end.n].depth
            /\ r[1] = tree
            /\ r[Len(r)] = query.end.n
            /\ \A k \in 1..(Len(r) - 1) :
                /\ nodes[r[k + 1]].parent = r[k]
                /\ r[k + 1] \in Children(r[k])

C4_Witness ==
    /\ query.op = "get_intermediaries"
    /\ query.start = ArgNone
    /\ query.end.t = "Node"
    /\ nodes[query.end.n].depth = 3
    /\ Len(query.result) = 3

\* C5: get_intermediaries(x, y) returns the empty list when y is neither x nor
\* below x, and what it returns is never a partial path: a result that is not
\* empty starts at x and ends at y.
C5_Unreachable ==
    ( /\ query.op = "get_intermediaries"
      /\ query.start.t = "Node"
      /\ query.end.t = "Node" ) =>
        LET x == query.start.n
            y == query.end.n
            r == query.result
        IN  /\ (y /= x /\ ~IsDescendant(x, y)) => r = <<>>
            /\ r /= <<>> => (r[1] = x /\ r[Len(r)] = y)

\* two children of the root, asked for the path from one to the other
C5_Witness ==
    /\ query.op = "get_intermediaries"
    /\ query.start.t = "Node"
    /\ query.end.t = "Node"
    /\ query.start.n /= query.end.n
    /\ nodes[query.start.n].parent = tree
    /\ nodes[query.end.n].parent = tree
    /\ query.result = <<>>

\* C3: after the records of A -> B -> C -> D -> B two nodes carry the URL B;
\* the second is a child of D and not of A; a node made by a later record whose
\* parent URL is B hangs under the most recently created B, never under the
\* B that is the child of A.
C3_LoopTieBreak ==
    i >= Len(LoopRecords) =>
        /\ Len(nodes) >= 5
        /\ FullUrl(2) = UrlB /\ FullUrl(5) = UrlB
        /\ FullUrl(1) = UrlA /\ FullUrl(4) = UrlD
        /\ nodes[2].parent = 1
        /\ nodes[5].parent = 4
        /\ ChildCount(4, 5) = 1
        /\ ChildCount(1, 5) = 0
        /\ \A n \in 6..Len(nodes) :
            FullUrl(nodes[n].parent) = UrlB =>
                /\ nodes[n].parent /= 2
                /\ nodes[n].parent >= 5
                /\ \A m \in (nodes[n].parent + 1)..(n - 1) : FullUrl(m) /= UrlB

\* a record E with parent URL B arrived after the loop and hangs under the
\* B that is the child of D
C3_Witness ==
    /\ Len(nodes) >= 6
    /\ FullUrl(6) = UrlE
    /\ nodes[6].parent = 5
    /\ nodes[5].parent = 4
    /\ FullUrl(5) = FullUrl(2)

-----------------------------------------------------------------------------
(* Properties of the pipeline on a session log                              *)

Front(seq) == SubSeq(seq, 1, Len(seq) - 1)

\* the Causality Resolver has returned its list
Resolved == pc \in {"build", "built", "done"}

IsCrash(message_dict) ==
    message_dict.method = RequestWillBeSent /\ message_dict.documentURL = ChromeError

IsStart(message_dict) ==
    message_dict.method = RequestWillBeSent /\ message_dict.url = SessionStartUrl

\* The statement of C6 as written: a log that holds a request-sent record with
\* the browser-error placeholder as document URL at any position yields no
\* causal-link record and no tree.
C6_CrashAnywhere ==
    (\E k \in 1..Len(raw_log) : IsCrash(raw_log[k])) =>
        /\ Resolved => parent_info_list = <<>>
        /\ pc \in {"built", "done"} => tree = NoTree

\* C6: a log that holds a request-sent record with the browser-error
\* placeholder as document URL at or after the first request-sent record for the
\* starting URL yields an empty normalized list, no causal-link record and no
\* tree, and the resolver raises nothing, whatever precedes the record.
C6_CrashDiscard ==
    (\E k \in 1..Len(raw_log) :
        /\ IsCrash(raw_log[k])
        /\ \E j \in 1..k : IsStart(raw_log[j])) =>
        /\ pc /= "normalize" => entry_list = <<>>
        /\ parent_info_list = <<>>
        /\ tree = NoTree
        /\ nodes = <<>>
        /\ pc /= "raised"

\* the crash record came third, after two requests of the session were accepted
C6_Witness ==
    /\ pc = "built"
    /\ Len(raw_log) = 3
    /\ raw_log[1] = reqA /\ raw_log[2] = reqB
    /\ IsCrash(raw_log[3]) /\ ~IsStart(raw_log[3])
    /\ ln = 3
    /\ entry_list = <<>>

IsBadInitiator(entry) ==
    /\ entry.method = RequestWillBeSent
    /\ entry.type /= "Document"
    /\ entry.initiatorType \notin {"script", "parser", "other"}

IsGoodInitiator(entry) == ~IsBadInitiator(entry)

\* C7: the list the resolver returns is the list it returns on the same
\* sequence with the request-sent records of an unknown initiator type taken
\* out (where that run returns a list): only those events are skipped.
C7_OnlyBadSkipped ==
    Resolved =>
        LET without == get_parent_info(SelectSeq(entry_list, IsGoodInitiator))
        IN  ~without.raised => parent_info_list = without.parent_info_list

\* C8: the resolver never raises: on every normalized sequence it runs to
\* completion and returns a list.
C8_RunsToCompletion == pc /= "raised"

\* the tree without the resource kinds of its nodes
Shape(ns) ==
    [n \in 1..Len(ns) |->
        [ url |-> ns[n].url, url_fragment |-> ns[n].url_fragment, parent |-> ns[n].parent,
          parent_source |-> ns[n].parent_source, children_list |-> ns[n].children_list,
          depth |-> ns[n].depth ]]

\* C9: when the last record of the log is a download-begin event for the child
\* URL of a causal-link record the log before it emits, the run reclassifies a
\* record of that URL to Download and its chain record has has-download true
\* with that URL, while the tree, the chain's URL list and the hop count are
\* those of the run on the log without the event.
C9_DownloadAppended ==
    (/\ pc = "done"
     /\ raw_log /= <<>>
     /\ raw_log[Len(raw_log)].method = DownloadWillBegin) =>
        LET download_url == raw_log[Len(raw_log)].url
            before == get_parent_info(extract_target_entries(Front(raw_log)))
            built == build_redirection_tree(before.parent_info_list)
            chain == ComposeChain(before.parent_info_list, built.nodes, built.tree,
                                  final_url, covering_iframe)
        IN  (/\ ~before.raised
             /\ \E k \in 1..Len(before.parent_info_list) :
                    before.parent_info_list[k][1] = download_url
             /\ chain.t = "list") =>
                /\ \E k \in 1..Len(parent_info_list) :
                    /\ parent_info_list[k][1] = download_url
                    /\ parent_info_list[k][2] = "Download"
                /\ tree = built.tree
                /\ Shape(nodes) = Shape(built.nodes)
                /\ redirection_info.t = "list"
                /\ redirection_info.inter_url_list = chain.inter_url_list
                /\ redirection_info.hops = chain.hops
                /\ redirection_info.has_download
                /\ redirection_info.download_url = download_url

\* C10: the header-refresh session with observed final URL http://b.test/ and
\* no covering iframe yields the chain [http://a.test/, http://b.test/] with
\* mechanisms [root, httpHeaderRefresh] and hops = 1.
C10_HeaderRefresh ==
    (/\ pc = "done"
     /\ raw_log = RefreshScenario
     /\ final_url = UrlB
     /\ covering_iframe = NoIframe) =>
        /\ redirection_info.t = "list"
        /\ redirection_info.inter_url_list = <<UrlA, UrlB>>
        /\ redirection_info.inter_method_list = <<"root", "httpHeaderRefresh">>
        /\ redirection_info.hops = 1

\* the header-refresh session was composed for the final URL http://b.test/;
\* the frame-navigation record was kept aside and matched the second link
C10_Witness ==
    /\ pc = "done"
    /\ raw_log = RefreshScenario
    /\ final_url = UrlB
    /\ covering_iframe = NoIframe
    /\ Len(entry_list) = 4
    /\ Len(frame_navigate_info_list) = 1
    /\ Len(parent_info_list) = 2
    /\ parent_info_list[2][4] = "httpHeaderRefresh"

-----------------------------------------------------------------------------
(* Properties of the Event Normalizer                                       *)

\* the list the normalizer holds after the first n lines of log
EntriesAfter(log, n) == NormalizeFrom(NormalizerInit, 0, SubSeq(log, 1, n)).entry_list

\* the request-sent records of entries with the request identifier id
SentWith(entries, id) ==
    SelectSeq(entries, LAMBDA e : e.method = RequestWillBeSent /\ e.requestId = id)

\* the other records of entries
NotSentWith(entries, id) ==
    SelectSeq(entries, LAMBDA e : ~(e.method = RequestWillBeSent /\ e.requestId = id))

\* line ln of the log was a load-failed record and the loop body handled it
FailedHandled ==
    /\ pc \in {"normalize", "resolve"}
    /\ ri = 0
    /\ ln >= 1
    /\ raw_log[ln].method = LoadingFailed
    /\ has_filtered

\* the index of the first request-sent record for the starting URL, 0 if none
RECURSIVE FirstStart(_, _)
FirstStart(log, k) ==
    IF k > Len(log) THEN 0
    ELSE IF log[k].method = RequestWillBeSent /\ log[k].url = SessionStartUrl THEN k
    ELSE FirstStart(log, k + 1)

\* sub is log with some records left out, the others in their order
RECURSIVE IsSubsequence(_, _)
IsSubsequence(sub, log) ==
    IF sub = <<>> THEN TRUE
    ELSE IF log = <<>> THEN FALSE
    ELSE IF Head(sub) = Head(log) THEN IsSubsequence(Tail(sub), Tail(log))
    ELSE IsSubsequence(sub, Tail(log))

\* The statement of C11 as written: once a load-failed record is handled the
\* accumulated list holds no request-sent record with its request identifier.
C11_NoneWithFailedId ==
    FailedHandled => SentWith(entry_list, raw_log[ln].requestId) = <<>>

\* C11: once a load-failed record is handled, the most recent accumulated
\* request-sent record with its request identifier is gone from the list and
\* every other record is kept in place; if at most one request-sent record
\* carried that identifier, none is left.  A request whose load failed, whose
\* identifier no earlier request shares and whose URL no other request has,
\* is in no causal-link record and in no tree node.
C11_FailedRemoved ==
    /\ FailedHandled =>
        LET id == raw_log[ln].requestId
            before == EntriesAfter(raw_log, ln - 1)
        IN  /\ SentWith(entry_list, id) = Front(SentWith(before, id))
            /\ NotSentWith(entry_list, id) = Append(NotSentWith(before, id), raw_log[ln])
            /\ Len(SentWith(before, id)) <= 1 => SentWith(entry_list, id) = <<>>
    /\ \A k \in 1..Len(raw_log), j \in 1..Len(raw_log) :
        (/\ FirstStart(raw_log, 1) /= 0
         /\ FirstStart(raw_log, 1) <= j
         /\ j < k
         /\ raw_log[k].method = LoadingFailed
         /\ raw_log[j].method = RequestWillBeSent
         /\ raw_log[j].requestId = raw_log[k].requestId
         /\ \A m \in 1..Len(raw_log) :
                (m /= j /\ raw_log[m].method = RequestWillBeSent) =>
                    /\ raw_log[m].url /= raw_log[j].url
                    /\ raw_log[m].requestId /= raw_log[j].requestId) =>
            /\ pc /= "normalize" =>
                \A n \in 1..Len(entry_list) : entry_list[n] /= raw_log[j]
            /\ pc \in {"build", "built", "done"} =>
                \A n \in 1..Len(parent_info_list) : parent_info_list[n][1] /= raw_log[j].url
            /\ pc \in {"built", "done"} =>
                \A n \in 1..Len(nodes) : nodes[n].url \o nodes[n].url_fragment /= raw_log[j].url

\* the load of http://b.test/ failed after the request for it was accepted;
\* the session's first link was resolved and the tree built without it
C11_Witness ==
    /\ pc = "built"
    /\ raw_log = <<reqA, reqB, failR2>>
    /\ entry_list = <<reqA, failR2>>
    /\ Len(parent_info_list) = 1
    /\ Len(nodes) = 1

\* C12: the normalized list holds no record that precedes the first
\* request-sent record for the starting URL; when that record is read and is
\* not a crash record it is the first record of the list; when the log holds no
\* such record the list is empty.
C12_StalePrefix ==
    LET first == FirstStart(raw_log, 1)
    IN  /\ first = 0 => entry_list = <<>>
        /\ first /= 0 =>
            /\ IsSubsequence(entry_list, SubSeq(raw_log, first, Len(raw_log)))
            /\ ln < first => entry_list = <<>>
            /\ (ln = first /\ raw_log[first].documentURL /= ChromeError) =>
                   entry_list = <<raw_log[first]>>

\* two records of interest came before the first request for the starting URL
\* and were dropped; the list starts with that request
C12_Witness ==
    /\ pc = "resolve"
    /\ Len(raw_log) = 3
    /\ raw_log[1] = reqB
    /\ raw_log[2] = failR1
    /\ raw_log[3] = reqA
    /\ entry_list = <<reqA>>

\* C13: the normalized list is the raw log with some records left out: its
\* records come in the order of the log, whatever their timestamps, also after
\* a load-failed record removed a request.
C13_OrderPreserved == IsSubsequence(entry_list, raw_log)

\* the list holds records whose timestamps go down, after a removal
C13_Witness ==
    /\ pc = "resolve"
    /\ raw_log = <<reqA, reqB, failR2>>
    /\ Len(entry_list) = 2
    /\ entry_list[1].timestamp > entry_list[2].timestamp

-----------------------------------------------------------------------------
(* Properties of the tree's timestamps and of get_initiator_node            *)

\* C14: in the tree built from a log, no child's timestamp is below its
\* parent's, also when the timestamps of the log are not sorted.
C14_EdgeTimestamps ==
    \A n \in 1..Len(nodes) :
        nodes[n].parent /= NoNode => nodes[n].timestamp >= nodes[nodes[n].parent].timestamp

\* the nodes get_initiator_node may answer with: not base_node, the URL asked
\* for (fragment ignored), not younger than base_node
Eligible(initiator_url, base_node) ==
    {n \in 1..Len(nodes) :
        /\ n /= base_node
        /\ url_cmp(initiator_url, nodes[n].url)
        /\ nodes[n].timestamp <= nodes[base_node].timestamp}

\* C15: get_initiator_node never answers base_node; it answers absent exactly
\* when no other node has the URL and a timestamp up to base_node's, and
\* otherwise one of those nodes that is closest in time to base_node.
C15_InitiatorNotBase ==
    query.op = "get_initiator_node" =>
        LET eligible == Eligible(query.initiator_url, query.base_node)
            due_time == nodes[query.base_node].timestamp
        IN  /\ query.result /= query.base_node
            /\ query.result = NoNode <=> eligible = {}
            /\ query.result /= NoNode =>
                /\ query.result \in eligible
                /\ \A m \in eligible :
                    due_time - nodes[query.result].timestamp <= due_time - nodes[m].timestamp

\* C16: get_intermediaries with two URL strings, each the URL of one node of
\* the tree, the node of the second below the node of the first, returns the
\* path from the first node to the second, also when the first is not the root.
C16_PathByUrl ==
    ( /\ query.op = "get_intermediaries"
      /\ query.start.t = "str"
      /\ query.end.t = "str" ) =>
        \A s \in NodeIds, e \in NodeIds :
            ( /\ \A n \in NodeIds : FullUrl(n) = query.start.s <=> n = s
              /\ \A n \in NodeIds : FullUrl(n) = query.end.s <=> n = e
              /\ IsDescendant(s, e) ) =>
                LET r == query.result
                IN  /\ r /= <<>>
                    /\ r[1] = s
                    /\ r[Len(r)] = e
                    /\ \A k \in 1..(Len(r) - 1) : nodes[r[k + 1]].parent = r[k]

-----------------------------------------------------------------------------
(* Properties of two sessions in one process                                *)

-----------------------------------------------------------------------------
(* Properties of the Chain Composer                                         *)

\* the URLs of the nodes from the root down to node n, by the parent pointers
RECURSIVE UrlsDownTo(_)
UrlsDownTo(n) ==
    IF n = NoNode THEN <<>>
    ELSE Append(UrlsDownTo(nodes[n].parent), FullUrl(n))

\* the nodes whose URL with fragment is the observed final URL, up to case and
\* percent-encoding
EndNodes == {n \in NodeIds : url_cmp(FullUrl(n), final_url)}

\* C18: the composer returns no chain when no tree was built or no node
\* matches the final URL; otherwise, without a covering iframe, the chain is
\* the path from the root to a matching node and hops is its length minus one;
\* with a covering iframe it returns no chain or that path with one more
\* entry and one more hop.
C18_ChainOrNone ==
    pc = "done" =>
        /\ (tree = NoTree \/ EndNodes = {}) => redirection_info = NoInfo
        /\ (tree /= NoTree /\ EndNodes /= {}) =>
            \E n \in EndNodes :
                LET path == UrlsDownTo(n)
                IN  /\ path[1] = FullUrl(tree)
                    /\ Len(path) = nodes[n].depth
                    /\ covering_iframe = NoIframe =>
                        /\ redirection_info.t = "list"
                        /\ redirection_info.inter_url_list = path
                        /\ redirection_info.hops = Len(path) - 1
                        /\ n = tree => redirection_info.hops = 0
                    /\ covering_iframe /= NoIframe =>
                        \/ redirection_info = NoInfo
                        \/ /\ redirection_info.t = "list"
                           /\ Front(redirection_info.inter_url_list) = path
                           /\ redirection_info.hops = Len(path)

\* a session of three nodes composed for a final URL that differs in case from
\* the URL of the node it ends on
C18_Witness ==
    /\ pc = "done"
    /\ Len(nodes) = 3
    /\ final_url = UrlBUpper
    /\ covering_iframe = NoIframe
    /\ redirection_info.t = "list"
    /\ redirection_info.hops = 1
    /\ redirection_info.inter_url_list = <<UrlA, UrlB>>

-----------------------------------------------------------------------------
(* general_funcs.get_valid_url                                              *)
(* Here a text is a sequence of character tokens.  Every punctuation        *)
(* character the function or urllib looks for is a token of its own; a run  *)
(* of letters or digits is one word token, and no word is the concatenation *)
(* of other tokens, so two texts are equal exactly when their token         *)
(* sequences are.  "U+00FC" is the one character u-umlaut, "U+FFFD" the     *)
(* replacement character.  A "%" is only ever followed by a two-digit word. *)

AlphaWords == {"http", "https", "ftp", "HTTP", "a", "b", "x", "y", "test",
               "amp", "f", "p", "A", "xn--", "tda"}
DigitWords == {"80", "443", "25", "41", "23", "5B", "3A", "3B", "3F", "C3",
               "BC", "EF", "BF", "BD"}

\* Set minimum, for str.find
Lowest(S) == CHOOSE k \in S : \A m \in S : k <= m
Highest(S) == CHOOSE k \in S : \A m \in S : k >= m

str_startswith(s, prefix) ==
    Len(prefix) <= Len(s) /\ SubSeq(s, 1, Len(prefix)) = prefix

\* s.find(sub, start): 0 stands for Python's -1, positions count from 1
str_find(s, sub, start) ==
    LET hits == {k \in start..(Len(s) - Len(sub) + 1) :
                    SubSeq(s, k, k + Len(sub) - 1) = sub}
    IN  IF hits = {} THEN 0 ELSE Lowest(hits)

\* s.rfind(sub)
str_rfind(s, sub) ==
    LET hits == {k \in 1..(Len(s) - Len(sub) + 1) :
                    SubSeq(s, k, k + Len(sub) - 1) = sub}
    IN  IF hits = {} THEN 0 ELSE Highest(hits)

\* sub in s
str_in(sub, s) == str_find(s, sub, 1) /= 0

\* s.replace(old, new): left to right, one pass, non-overlapping
RECURSIVE str_replace(_, _, _)
str_replace(s, old, new) ==
    IF s = <<>> THEN <<>>
    ELSE IF str_startswith(s, old)
         THEN new \o str_replace(SubSeq(s, Len(old) + 1, Len(s)), old, new)
         ELSE <<Head(s)>> \o str_replace(Tail(s), old, new)

\* s.split(sep): the part before the separator found at k, then the rest
RECURSIVE str_split(_, _)
RECURSIVE SplitAt(_, _, _)
SplitAt(s, sep, k) ==
    IF k = 0 THEN <<s>>
    ELSE <<SubSeq(s, 1, k - 1)>>
             \o str_split(SubSeq(s, k + Len(sep), Len(s)), sep)

str_split(s, sep) == SplitAt(s, sep, str_find(s, sep, 1))

SplitOnceAt(s, sep, k) ==
    IF k = 0 THEN <<s>>
    ELSE <<SubSeq(s, 1, k - 1), SubSeq(s, k + Len(sep), Len(s))>>

\* s.split(sep, 1)
str_split_once(s, sep) == SplitOnceAt(s, sep, str_find(s, sep, 1))

\* sep.join(parts)
RECURSIVE str_join(_, _)
str_join(sep, parts) ==
    IF parts = <<>> THEN <<>>
    ELSE IF Len(parts) = 1 THEN parts[1]
         ELSE parts[1] \o sep \o str_join(sep, Tail(parts))

\* urllib.parse.scheme_chars
scheme_chars == AlphaWords \cup DigitWords \cup {"+", "-", "."}

\* str.lower() of a scheme
scheme_lower(s) == [k \in 1..Len(s) |-> IF s[k] = "HTTP" THEN "http" ELSE s[k]]

NoParts ==
    [raised |-> FALSE, scheme |-> <<>>, netloc |-> <<>>, path |-> <<>>,
     params |-> <<>>, query |-> <<>>, fragment |-> <<>>]

(* urllib.parse.urlsplit(url, scheme), step by step: the scheme up to the   *)
(* first ':', the netloc after '//' up to the first of '/?#', then the      *)
(* fragment and the query.                                                  *)

\* SplitResult(scheme, netloc, url, query, fragment)
SplitResult(scheme, netloc, by_mark, by_hash) ==
    [NoParts EXCEPT
        !.scheme = scheme,
        !.netloc = netloc,
        !.path = by_mark[1],
        !.query = IF Len(by_mark) = 2 THEN by_mark[2] ELSE <<>>,
        !.fragment = IF Len(by_hash) = 2 THEN by_hash[2] ELSE <<>>]

\* url.split('?', 1)
SplitQuery(scheme, netloc, by_hash) ==
    SplitResult(scheme, netloc, str_split_once(by_hash[1], <<"?">>), by_hash)

\* A bracket in the netloc raises ValueError (no text over these tokens is
\* an IP literal); then url.split('#', 1)
SplitFragment(scheme, netloc, url) ==
    IF str_in(<<"[">>, netloc) \/ str_in(<<"]">>, netloc)
    THEN [NoParts EXCEPT !.raised = TRUE]
    ELSE SplitQuery(scheme, netloc, str_split_once(url, <<"#">>))

\* urllib.parse._splitnetloc: where the netloc ends
NetlocEnd(url) ==
    LET delims == {k \in 3..Len(url) : url[k] \in {"/", "?", "#"}}
    IN  IF delims = {} THEN Len(url) + 1 ELSE Lowest(delims)

\* if url[:2] == '//'
SplitNetloc(scheme, url) ==
    IF str_startswith(url, <<"/", "/">>)
    THEN SplitFragment(scheme, SubSeq(url, 3, NetlocEnd(url) - 1),
                       SubSeq(url, NetlocEnd(url), Len(url)))
    ELSE SplitFragment(scheme, <<>>, url)

\* i = url.find(':') and the test of url[:i]
SplitScheme(url, default_scheme, c) ==
    IF /\ c > 1
       /\ url[1] \in AlphaWords
       /\ \A k \in 1..(c - 1) : url[k] \in scheme_chars
    THEN SplitNetloc(scheme_lower(SubSeq(url, 1, c - 1)),
                     SubSeq(url, c + 1, Len(url)))
    ELSE SplitNetloc(default_scheme, url)

urlsplit(url, default_scheme) ==
    SplitScheme(url, default_scheme, str_find(url, <<":">>, 1))

\* urllib.parse.uses_params, uses_relative, uses_netloc: the schemes over
\* these tokens
uses_params == {<<>>, <<"ftp">>, <<"http">>, <<"https">>}
uses_relative == {<<>>, <<"ftp">>, <<"http">>, <<"https">>}
uses_netloc == {<<>>, <<"ftp">>, <<"http">>, <<"https">>}

\* url[:i], url[i+1:] (i = -1 when there is no ';')
SplitParamsAt(url, semi) ==
    IF semi = 0
    THEN IF str_in(<<"/">>, url) THEN <<url, <<>>>>
         ELSE <<SubSeq(url, 1, Len(url) - 1), url>>
    ELSE <<SubSeq(url, 1, semi - 1), SubSeq(url, semi + 1, Len(url))>>

\* urllib.parse._splitparams: the params of the last path segment
splitparams(url) ==
    SplitParamsAt(url,
        IF str_in(<<"/">>, url)
        THEN str_find(url, <<";">>, str_rfind(url, <<"/">>))
        ELSE str_find(url, <<";">>, 1))

SetParams(r, path_params) ==
    [r EXCEPT !.path = path_params[1], !.params = path_params[2]]

\* if scheme in uses_params and ';' in url
ParseParams(r) ==
    IF ~r.raised /\ r.scheme \in uses_params /\ str_in(<<";">>, r.path)
    THEN SetParams(r, splitparams(r.path))
    ELSE r

\* urllib.parse.urlparse
urlparse(url, default_scheme) == ParseParams(urlsplit(url, default_scheme))

\* urlunsplit: '//' + netloc + url
UnsplitNetloc(scheme, netloc, url) ==
    IF netloc /= <<>>
          \/ (scheme /= <<>> /\ scheme \in uses_netloc
              /\ ~str_startswith(url, <<"/", "/">>))
    THEN <<"/", "/">> \o netloc
            \o (IF url /= <<>> /\ Head(url) /= "/" THEN <<"/">> \o url
                ELSE url)
    ELSE url

\* urlunsplit: scheme + ':' + url
UnsplitScheme(scheme, url) ==
    IF scheme /= <<>> THEN scheme \o <<":">> \o url ELSE url

\* urllib.parse.urlunsplit
urlunsplit(scheme, netloc, url, query_string, fragment) ==
    UnsplitScheme(scheme, UnsplitNetloc(scheme, netloc, url))
        \o (IF query_string /= <<>> THEN <<"?">> \o query_string ELSE <<>>)
        \o (IF fragment /= <<>> THEN <<"#">> \o fragment ELSE <<>>)

\* urllib.parse.urlunparse
urlunparse(scheme, netloc, path, params, query_string, fragment) ==
    urlunsplit(scheme, netloc,
               IF params /= <<>> THEN path \o <<";">> \o params ELSE path,
               query_string, fragment)

\* urljoin's loop over the segments: '..' pops (an empty list is left
\* alone), '.' is skipped
RECURSIVE ResolveSegments(_, _)
ResolveSegments(segments, resolved_path) ==
    IF segments = <<>> THEN resolved_path
    ELSE IF Head(segments) = <<".", ".">>
         THEN ResolveSegments(Tail(segments),
                  IF resolved_path = <<>> THEN <<>>
                  ELSE SubSeq(resolved_path, 1, Len(resolved_path) - 1))
         ELSE IF Head(segments) = <<".">>
              THEN ResolveSegments(Tail(segments), resolved_path)
              ELSE ResolveSegments(Tail(segments),
                                   Append(resolved_path, Head(segments)))

NotEmpty(seg) == seg /= <<>>

Joined(s) == [raised |-> FALSE, s |-> s]
JoinRaised == [raised |-> TRUE, s |-> <<>>]

\* base_parts = bpath.split('/'), without a last part that is no directory
BaseParts(split_base) ==
    IF split_base[Len(split_base)] /= <<>>
    THEN SubSeq(split_base, 1, Len(split_base) - 1)
    ELSE split_base

\* segments[1:-1] = filter(None, segments[1:-1])
FilterSegments(segments) ==
    IF Len(segments) < 3 THEN segments
    ELSE <<segments[1]>>
            \o SelectSeq(SubSeq(segments, 2, Len(segments) - 1), NotEmpty)
            \o <<segments[Len(segments)]>>

\* '/'.join(resolved_path) or '/'
JoinPath(b, u, new_path) ==
    Joined(urlunparse(u.scheme, b.netloc,
                      IF new_path = <<>> THEN <<"/">> ELSE new_path,
                      u.params, u.query, u.fragment))

\* the resolved segments, with a trailing '' after a last '.' or '..'
JoinSegments(b, u, segments) ==
    JoinPath(b, u,
        str_join(<<"/">>,
            IF segments[Len(segments)] \in {<<".">>, <<".", ".">>}
            THEN Append(ResolveSegments(segments, <<>>), <<>>)
            ELSE ResolveSegments(segments, <<>>)))

\* urljoin once base and url are parsed
JoinParsed(url, b, u) ==
    IF u.raised THEN JoinRaised
    ELSE IF u.scheme /= b.scheme \/ u.scheme \notin uses_relative
    THEN Joined(url)
    ELSE IF u.scheme \in uses_netloc /\ u.netloc /= <<>>
    THEN Joined(urlunparse(u.scheme, u.netloc, u.path, u.params, u.query,
                           u.fragment))
    ELSE IF u.path = <<>> /\ u.params = <<>>
    THEN Joined(urlunparse(u.scheme, b.netloc, b.path, b.params,
                           IF u.query = <<>> THEN b.query ELSE u.query,
                           u.fragment))
    ELSE IF Head(u.path) = "/"
    THEN JoinSegments(b, u, str_split(u.path, <<"/">>))
    ELSE JoinSegments(b, u,
             FilterSegments(BaseParts(str_split(b.path, <<"/">>))
                                \o str_split(u.path, <<"/">>)))

\* urlparse(url, bscheme)
JoinBase(url, b) ==
    IF b.raised THEN JoinRaised
    ELSE JoinParsed(url, b, urlparse(url, b.scheme))

\* urllib.parse.urljoin(base, url) for non-empty base and url; the result is
\* [raised, s]
urljoin(base, url) == JoinBase(url, urlparse(base, <<>>))

\* the bytes urllib.parse.unquote decodes, by their two hex digits
HexDecode(h) ==
    CASE h = "25" -> "%"
      [] h = "41" -> "A"
      [] h = "23" -> "#"
      [] h = "5B" -> "["
      [] h = "3A" -> ":"
      [] h = "3B" -> ";"
      [] h = "3F" -> "?"
      [] OTHER -> "U+FFFD"

\* urllib.parse.unquote: one pass, so that '%2541' becomes '%41'; a byte
\* that is not UTF-8 on its own becomes U+FFFD, '%C3%BC' is u-umlaut
RECURSIVE unquote_text(_)
unquote_text(s) ==
    IF s = <<>> THEN <<>>
    ELSE IF str_startswith(s, <<"%", "C3", "%", "BC">>)
    THEN <<"U+00FC">> \o unquote_text(SubSeq(s, 5, Len(s)))
    ELSE IF str_startswith(s, <<"%", "EF", "%", "BF", "%", "BD">>)
    THEN <<"U+FFFD">> \o unquote_text(SubSeq(s, 7, Len(s)))
    ELSE IF Len(s) >= 2 /\ s[1] = "%" /\ s[2] \in DigitWords \ {"443"}
    THEN <<HexDecode(s[2])>> \o unquote_text(SubSeq(s, 3, Len(s)))
    ELSE <<Head(s)>> \o unquote_text(Tail(s))

\* the percent-encoding of one character that quote() does not keep
PercentEncode(c) ==
    CASE c = "U+00FC" -> <<"%", "C3", "%", "BC">>
      [] c = "U+FFFD" -> <<"%", "EF", "%", "BF", "%", "BD">>
      [] c = ";" -> <<"%", "3B">>
      [] c = "?" -> <<"%", "3F">>
      [] c = "#" -> <<"%", "23">>
      [] OTHER -> <<c>>

\* urllib.parse.quote(s, safe): letters, digits, "_.-~" and the safe
\* characters stay, every other character is percent-encoded
RECURSIVE quote(_, _)
quote(s, safe) ==
    IF s = <<>> THEN <<>>
    ELSE (IF Head(s) \in safe THEN <<Head(s)>> ELSE PercentEncode(Head(s)))
            \o quote(Tail(s), safe)

\* safe="!@$%&*()-_+=/[]:',.~" together with the always-safe characters
PathSafe == AlphaWords \cup DigitWords
                \cup {"%", "&", "-", "+", "/", "[", "]", ":", ".", "~"}
\* safe="!@$%^&*()-_=+/?[]{}\|;:,.~`"
QuerySafe == PathSafe \cup {"?", ";"}

\* ord(c) > 122
AboveZ(c) == c \in {"~", "U+00FC", "U+FFFD"}
\* ord(c) < 128
IsBasic(c) == c \notin {"U+00FC", "U+FFFD"}
NotBasic(c) == ~IsBasic(c)

\* label.encode('punycode'): the basic characters, a '-' when there are
\* any, then the encoding of the others ("tda" for a lone u-umlaut; the
\* word stands for the encoded tail of any other label)
punycode(label) ==
    SelectSeq(label, IsBasic)
        \o (IF SelectSeq(label, IsBasic) /= <<>> THEN <<"-">> ELSE <<>>)
        \o (IF SelectSeq(label, NotBasic) /= <<>> THEN <<"tda">> ELSE <<>>)

\* lines 92-99: a label with a character above 'z' is punycode-encoded
ConvertLabel(label) ==
    IF \E k \in 1..Len(label) : AboveZ(label[k])
    THEN <<"xn--">> \o punycode(label)
    ELSE label

\* line 100
ConvertLabels(domain_label_list) ==
    str_join(<<".">>, [k \in 1..Len(domain_label_list) |->
                          ConvertLabel(domain_label_list[k])])

default_ports(scheme) == IF scheme = <<"http">> THEN <<"80">> ELSE <<"443">>

\* lines 82-85
StripDefaultPort(scheme, netloc) ==
    IF str_in(<<":">>, netloc)
          /\ default_ports(scheme) = str_split(netloc, <<":">>)[2]
    THEN str_split(netloc, <<":">>)[1]
    ELSE netloc

\* lines 81-100: the netloc of the canonical form
CanonicalNetloc(scheme, netloc) ==
    ConvertLabels(str_split(unquote_text(StripDefaultPort(scheme, netloc)),
                            <<".">>))

\* lines 115-117: urljoin once per '..' part
RECURSIVE JoinParents(_, _)
RECURSIVE JoinNext(_, _)
JoinNext(joined, path_parts) ==
    IF joined.raised THEN joined ELSE JoinParents(joined.s, path_parts)

JoinParents(final, path_parts) ==
    IF path_parts = <<>> THEN Joined(final)
    ELSE JoinNext(urljoin(final, <<".", ".">> \o Head(path_parts)),
                  Tail(path_parts))

NoneUrl == [t |-> "None", s |-> <<>>]
RaisedUrl == [t |-> "raised", s |-> <<>>]
Str(s) == [t |-> "str", s |-> s]

\* lines 48-50
Corrected(text) ==
    str_replace(str_replace(text, <<"\\">>, <<"/">>),
                <<"&", "amp", ";">>, <<"&">>)

\* lines 53-65
HasFragment(original_url) == str_in(<<"#">>, original_url)
HasQuery(original_url) ==
    str_in(<<"?">>, str_split_once(original_url, <<"#">>)[1])
HasParams(original_url) ==
    str_in(<<";">>,
           str_split_once(str_split_once(original_url, <<"#">>)[1],
                          <<"?">>)[1])

\* lines 104-119: scheme://netloc and the path
WithPath(url_parts, prefix, path) ==
    IF url_parts.path = <<>> THEN Joined(prefix \o <<"/">>)
    ELSE IF str_in(<<"/", ".", "/">>, url_parts.path)
    THEN Joined(prefix \o str_replace(path, <<".", "/">>, <<>>))
    ELSE IF str_in(<<"/", ".", ".", "/">>, path)
    THEN JoinParents(prefix \o Head(str_split(path, <<".", ".">>)),
                     Tail(str_split(path, <<".", ".">>)))
    ELSE Joined(prefix \o path)

\* lines 121-134: params, query and fragment
WithRest(original_url, url_parts, with_path) ==
    IF with_path.raised THEN RaisedUrl
    ELSE Str(with_path.s
               \o (IF HasParams(original_url)
                   THEN <<";">> \o quote(url_parts.params, PathSafe)
                   ELSE <<>>)
               \o (IF HasQuery(original_url)
                   THEN <<"?">> \o quote(url_parts.query, QuerySafe)
                   ELSE <<>>)
               \o (IF HasFragment(original_url)
                   THEN <<"#">> \o quote(url_parts.fragment, QuerySafe)
                   ELSE <<>>))

\* lines 68-136, once the text is parsed
Canonical(original_url, url_parts) ==
    IF url_parts.raised THEN RaisedUrl
    ELSE IF url_parts.scheme \notin {<<"http">>, <<"https">>}
               \/ url_parts.netloc = <<>>
    THEN NoneUrl
    ELSE WithRest(original_url, url_parts,
             WithPath(url_parts,
                      url_parts.scheme \o <<":", "/", "/">>
                          \o CanonicalNetloc(url_parts.scheme,
                                             url_parts.netloc),
                      quote(url_parts.path, PathSafe)))

\* lines 68-74
Parsed(original_url) == Canonical(original_url, urlparse(original_url, <<>>))

get_valid_url(text) == Parsed(Corrected(text))

(* The canonicalizer on its own: one text, canonicalized, and the result    *)
(* canonicalized again                                                      *)

MaxSegments == 2

Schemes ==
    {<<"http", ":", "/", "/">>, <<"https", ":", "/", "/">>,
     <<"HTTP", ":", "/", "/">>, <<"http", ":", "\\", "\\">>,
     <<"ftp", ":", "/", "/">>, <<"/", "/">>}

Hosts ==
    {<<>>,
     <<"a", ".", "test">>,
     <<"a", ".", "test", ":", "80">>,
     <<"a", ".", "test", ":", "443">>,
     <<":", "80">>,
     <<"a", "~", "b">>,
     <<"U+00FC", ".", "test">>,
     <<"a", "%", "25", "41">>,
     <<"a", "%", "23", "b">>,
     <<"a", "%", "3A", "80">>,
     <<"a", "%", "5B", "b">>}

Segments == {<<"/">>, <<"/", "x">>, <<"/", ".">>, <<"/", ".", ".">>}

\* '/./..//'
DotPath == <<"/", ".", "/", ".", ".", "/", "/">>

\* the texts of up to n segments
RECURSIVE PathsUpTo(_)
PathsUpTo(n) ==
    IF n = 0 THEN {<<>>}
    ELSE PathsUpTo(n - 1)
            \cup {t \o seg : t \in PathsUpTo(n - 1), seg \in Segments}

Paths == PathsUpTo(MaxSegments) \cup {DotPath}

Suffixes ==
    {<<>>,
     <<";", "p">>,
     <<"?", "x", "&", "amp", ";", "y">>,
     <<"?", "x", "&", "amp", ";", "amp", ";", "y">>,
     <<"#", "f">>}

InputUrls ==
    {scheme \o host \o path \o suffix :
        scheme \in Schemes, host \in Hosts, path \in Paths,
        suffix \in Suffixes}

\* get_valid_url(original_url)
GetValidUrl ==
    /\ pc = "url"
    /\ pc' = "canonical"
    /\ query' = [op |-> "get_valid_url",
                 original_url |-> query.original_url,
                 canonical_url |-> get_valid_url(query.original_url),
                 result |-> get_valid_url(query.original_url)]
    /\ UNCHANGED <<logVars, resVars, treeVars, outVars, sessions>>

\* get_valid_url(get_valid_url(original_url))
GetValidUrlAgain ==
    /\ pc = "canonical"
    /\ query.canonical_url.t = "str"
    /\ pc' = "recanonical"
    /\ query' = [query EXCEPT !.result = get_valid_url(query.canonical_url.s)]
    /\ UNCHANGED <<logVars, resVars, treeVars, outVars, sessions>>

InitUrl ==
    /\ \E original_url \in InputUrls :
           query = [op |-> "input", original_url |-> original_url,
                    canonical_url |-> NoneUrl, result |-> NoneUrl]
    /\ pc = "url"
    /\ raw_log = <<>>
    /\ ln = 0
    /\ has_filtered = FALSE
    /\ entry_list = <<>>
    /\ ri = 0
    /\ url_fragment_dict = EmptyDict
    /\ frame_parent_dict = EmptyDict
    /\ frame_url_dict = EmptyDict
    /\ loader_url_dict = EmptyDict
    /\ frame_loader_dict = EmptyDict
    /\ frame_navigate_info_list = <<>>
    /\ parent_info_list = <<>>
    /\ i = 0
    /\ nodes = <<>>
    /\ node_list = <<>>
    /\ tree = NoTree
    /\ final_url = NoUrl
    /\ covering_iframe = NoIframe
    /\ redirection_info = NoInfo
    /\ sessions = <<>>

NextUrl ==
    \/ GetValidUrl
    \/ GetValidUrlAgain

SpecUrl == InitUrl /\ [][NextUrl]_vars

-----------------------------------------------------------------------------
(* Properties of the canonicalizer                                          *)

\* an http(s) URL with a host, once parsed
IsHttpParts(text, parts) ==
    /\ ~parts.raised
    /\ parts.scheme \in {<<"http">>, <<"https">>}
    /\ parts.netloc /= <<>>
    /\ Head(parts.netloc) /= ":"
    /\ ~str_in(<<"\\">>, text)

IsHttpUrl(text) == IsHttpParts(text, urlparse(text, <<>>))

\* the text goes on with a '/' after 'scheme://'
HasPath(text) == str_in(<<"/">>, SubSeq(text, 5, Len(text)))

\* C19: canonicalization is idempotent: for every http(s) URL u with a
\* host, canonicalizing the canonical form of u gives the canonical form
\* of u again.
C19_Idempotent ==
    (pc = "recanonical" /\ IsHttpUrl(query.original_url))
        => query.result = query.canonical_url

\* what C20 promises for a parsed text
NoneOrPath(parts, result) ==
    ~parts.raised =>
        IF parts.scheme \notin {<<"http">>, <<"https">>}
              \/ parts.netloc = <<>>
        THEN result = NoneUrl
        ELSE result.t = "str" /\ HasPath(result.s)

\* C20: get_valid_url returns None, without raising, for every parseable
\* input whose scheme is not http/https or whose authority is empty, and for
\* every other parseable input it returns a string with a path.
C20_NoneOrPath ==
    pc = "canonical" =>
        NoneOrPath(urlparse(Corrected(query.original_url), <<>>),
                   query.result)

-----------------------------------------------------------------------------
(* Sessions with several frame navigations                                  *)

navC == Navigation("F", UrlC, "scriptInitiated", 100)
navBLate == Navigation("F", UrlB, "reload", 130)
reqC == Request(UrlC, UrlC, "F", "L3", "Document", "other", "R6", 102)

\* navigations that are followed by their request, that are not, and requests
\* with and without a known initiator type
MenuReconcile == {reqB, reqC, navB, navC, navBLate, reqBad}

InitReconcile ==
    \E extra \in SeqsUpTo(MenuReconcile, MaxLog) : InitOn("normalize", <<reqA>> \o extra)

SpecReconcile == InitReconcile /\ [][NextPipe]_vars

-----------------------------------------------------------------------------
(* Properties of the reconciliation pass                                    *)

\* the record info is of kind Document, of the item's frame and target URL,
\* and less than 20 away from it in time
Explains(navigate_item, info) ==
    /\ info[2] = "Document"
    /\ info[6] = navigate_item[1]
    /\ info[1] = navigate_item[2]
    /\ Abs(info[5] - navigate_item[4]) < NavWindow

\* the position of the first record from position from on that the item
\* explains, 0 when there is none
FirstExplained(infos, from, navigate_item) ==
    LET hits == {k \in from..Len(infos) : Explains(navigate_item, infos[k])}
    IN  IF hits = {} THEN 0 ELSE CHOOSE k \in hits : \A m \in hits : k <= m

\* every item's first explained record after the previous match carries the
\* item's reason
RECURSIVE EachItemMatched(_, _, _)
RECURSIVE MatchedAt(_, _, _, _)
MatchedAt(infos, from, navigations, match) ==
    IF match = 0 THEN EachItemMatched(infos, from, Tail(navigations))
    ELSE /\ infos[match][4] = Head(navigations)[3]
         /\ EachItemMatched(infos, match + 1, Tail(navigations))

EachItemMatched(infos, from, navigations) ==
    IF navigations = <<>> THEN TRUE
    ELSE MatchedAt(infos, from, navigations,
                   FirstExplained(infos, from, Head(navigations)))

\* C21: after the reconciliation pass, for each pending navigation item in
\* arrival order, the first Document record after the previous item's match
\* (the second record for the first item) with the item's frame and URL and
\* a timestamp less than 20 away carries the item's reason, whether or not
\* earlier items found a match.
C21_EachItemMatched ==
    pc = "build" =>
        EachItemMatched(parent_info_list, 2, frame_navigate_info_list)

\* entries with the entries at k and k + 1 exchanged
SwapAt(entries, k) ==
    [j \in 1..Len(entries) |->
        IF j = k THEN entries[k + 1] ELSE IF j = k + 1 THEN entries[k] ELSE entries[j]]

\* the places where a frame navigation and another entry are neighbours,
\* the first entry left in place
NavigationSwaps(entries) ==
    {k \in 2..(Len(entries) - 1) :
        (entries[k].method = FrameRequestedNavigation)
            /= (entries[k + 1].method = FrameRequestedNavigation)}

\* C22: the resolver's list does not depend on whether a frame navigation
\* entry stands before or after a neighbouring entry: exchanging the two
\* (never the first entry) gives the same list with the same mechanisms.
C22_NavigationOrderFree ==
    pc = "build" =>
        \A k \in NavigationSwaps(entry_list) :
            get_parent_info(SwapAt(entry_list, k))
                = [raised |-> FALSE, parent_info_list |-> parent_info_list]

-----------------------------------------------------------------------------
(* Sessions with frames, redirects, anchors, sub-resources and downloads    *)

UrlAx == <<"http://a.test/", "#", "x">>

Detached(frameId, timestamp) == [Blank(FrameDetached, timestamp) EXCEPT !.frameId = frameId]

NavigatedWithin(frameId, url, timestamp) ==
    [Blank(NavigatedWithinDocument, timestamp) EXCEPT !.frameId = frameId, !.url = url]

attachHF == Attached("H", "F", 100)
detachF == Detached("F", 101)
redirGA == Redirected(Request(UrlC, UrlC, "G", "L3", "Document", "other", "R7", 102), UrlA)
anchorF == NavigatedWithin("F", UrlAx, 101)
anchorG == NavigatedWithin("G", UrlBx, 102)
scriptG == Request(UrlD, UrlB, "G", "L9", "Script", "script", "R8", 102)

\* frames that are attached under one another and detached, documents that
\* are requested, redirected and moved to an anchor, sub-resources of known
\* and unknown loaders, downloads
MenuFrames ==
    { attachGF, attachGH, attachHF, detachF, reqB, reqG, redirGA, redirAB,
      reqScript, scriptG, anchorF, anchorG, dlA, dlB }

InitFrames ==
    \E extra \in SeqsUpTo(MenuFrames, MaxLog) : InitOn("normalize", <<reqA>> \o extra)

SpecFrames == InitFrames /\ [][NextPipe]_vars

-----------------------------------------------------------------------------
(* Properties of the loop of get_parent_info over entry_list                *)

\* an entry has been processed by the loop and the pass has not run yet
Processed == pc \in {"resolve", "reconcile", "raised"} /\ ri >= 1

\* the entry processed last, and the maps and lists as they were before it
LastEntry == entry_list[ri]
Before == ResolveFrom(ResolverInit, 0, SubSeq(entry_list, 1, ri - 1))

IsRequest(entry) == entry.method = RequestWillBeSent
IsDocumentRequest(entry) == IsRequest(entry) /\ entry.type = "Document"

\* the last entry added a record to parent_info_list
Emitted(before) == Len(parent_info_list) = Len(before.parent_info_list) + 1
LastInfo == parent_info_list[Len(parent_info_list)]

\* the URL of the parent frame, or of its own parent frame when it has none
ParentFrameUrl(before, parent_frame_id) ==
    IF parent_frame_id \in DOMAIN before.frame_url_dict
    THEN before.frame_url_dict[parent_frame_id]
    ELSE before.frame_url_dict[before.frame_parent_dict[parent_frame_id]]

\* parent URL and mechanism by the first rule that applies
FirstApplicableRule(before, idx, entry, recorded) ==
    IF idx = 0 THEN <<NoUrl, "root">>
    ELSE IF "redirectResponse" \in entry.has
    THEN <<recorded[entry.redirectResponse], "redirectResponse">>
    ELSE IF entry.frameId \in DOMAIN before.frame_parent_dict
    THEN <<ParentFrameUrl(before, before.frame_parent_dict[entry.frameId]),
           entry.initiatorType>>
    ELSE <<before.frame_url_dict[entry.frameId], entry.initiatorType>>

\* C23: the record emitted for a Document request has the parent URL and the
\* mechanism of the first rule that applies, in the order: first entry (no
\* parent, root); redirect response (its URL with the recorded fragment,
\* redirectResponse), also in a frame with a registered parent frame;
\* registered parent frame (that frame's URL, or its own parent frame's when
\* it has none, initiator type); the frame's own URL (initiator type).
C23_FirstApplicableRule ==
    (Processed /\ IsDocumentRequest(LastEntry) /\ Emitted(Before)) =>
        <<LastInfo[3], LastInfo[4]>>
            = FirstApplicableRule(Before, ri - 1, LastEntry, url_fragment_dict)

\* a redirect in a frame with a registered parent frame, from a document that
\* had moved to an anchor
C23_Witness ==
    /\ Processed
    /\ LastEntry = redirGA
    /\ "G" \in DOMAIN frame_parent_dict
    /\ Emitted(Before)
    /\ LastInfo[3] = UrlAx
    /\ LastInfo[4] = "redirectResponse"

\* the maps and lists after the first k entries
AfterPrefix(k) == ResolveFrom(ResolverInit, 0, SubSeq(entry_list, 1, k))

IsAnchor(entry) == entry.method = NavigatedWithinDocument

\* what entry does to the map `last` from a frame to the child URL of the
\* record emitted last for it by a Document request or an anchor navigation
\* since it was detached; infos_before and infos_after are parent_info_list
\* around the entry
LastDocumentStep(last, entry, infos_before, infos_after) ==
    IF entry.method = FrameDetached THEN Pop(last, entry.frameId)
    ELSE IF /\ IsDocumentRequest(entry) \/ IsAnchor(entry)
            /\ Len(infos_after) = Len(infos_before) + 1
    THEN Put(last, entry.frameId, infos_after[Len(infos_after)][1])
    ELSE last

RECURSIVE LastDocument(_)
LastDocument(k) ==
    IF k = 0 THEN EmptyDict
    ELSE LastDocumentStep(LastDocument(k - 1), entry_list[k],
                          AfterPrefix(k - 1).parent_info_list, AfterPrefix(k).parent_info_list)

FrameUrlsAreLastDocuments(last) ==
    \A f \in DOMAIN frame_url_dict : f \in DOMAIN last /\ frame_url_dict[f] = last[f]

MapsFollow(entry, info) ==
    /\ entry.frameId \in DOMAIN frame_url_dict
    /\ frame_url_dict[entry.frameId] = info[1]
    /\ entry.loaderId \in DOMAIN loader_url_dict
    /\ loader_url_dict[entry.loaderId] = info[1]
    /\ entry.frameId \in DOMAIN frame_loader_dict
    /\ frame_loader_dict[entry.frameId] = entry.loaderId

\* C24: after every prefix of entry_list, the document URL registered for a
\* frame is the child URL of the record emitted last for that frame by a
\* Document request or an anchor navigation since the frame was last detached;
\* and right after a Document request of frame f, loader l has emitted a
\* record with child URL u, frame_url_dict[f] = u, loader_url_dict[l] = u and
\* frame_loader_dict[f] = l.
C24_FrameUrlIsLastDocument ==
    /\ pc \in {"resolve", "reconcile", "raised"} => FrameUrlsAreLastDocuments(LastDocument(ri))
    /\ (Processed /\ IsDocumentRequest(LastEntry) /\ Emitted(Before))
           => MapsFollow(LastEntry, LastInfo)

\* frame F is detached and then registered again by a redirected request
C24_Witness ==
    /\ Processed
    /\ ri = 3
    /\ entry_list[2] = detachF
    /\ LastEntry = redirAB
    /\ "F" \in DOMAIN frame_url_dict
    /\ frame_url_dict["F"] = UrlB

IsOtherRequest(entry) == IsRequest(entry) /\ entry.type /= "Document"

KnownInitiatorTypes == {"script", "parser", "other"}

\* the parent of a request of another type: the loader's URL, or the frame's
LoaderOrFrameUrl(before, entry) ==
    IF entry.loaderId \in DOMAIN before.loader_url_dict
    THEN before.loader_url_dict[entry.loaderId]
    ELSE before.frame_url_dict[entry.frameId]

OtherRequestResolved(before, entry) ==
    IF /\ entry.loaderId \notin DOMAIN before.loader_url_dict
       /\ entry.frameId \notin DOMAIN before.frame_url_dict
    THEN parent_info_list = before.parent_info_list
    ELSE entry.initiatorType \in KnownInitiatorTypes =>
            /\ Emitted(before)
            /\ LastInfo[2] = entry.type
            /\ LastInfo[3] = LoaderOrFrameUrl(before, entry)

\* C25: a request of a type other than Document emits no record when neither
\* its loader nor its frame is registered; otherwise its record has as
\* parent the URL registered for its loader, or the frame's document URL when
\* the loader is not registered -- also when the frame has been detached and
\* only the loader is still registered.
C25_LoaderThenFrame ==
    (Processed /\ IsOtherRequest(LastEntry)) => OtherRequestResolved(Before, LastEntry)

\* a script of loader L1 requested after frame F was detached
C25_Witness ==
    /\ Processed
    /\ LastEntry = reqScript
    /\ entry_list[2] = detachF
    /\ "F" \notin DOMAIN frame_url_dict
    /\ Emitted(Before)
    /\ LastInfo[3] = UrlA

IsFrameEvent(entry) == entry.method \in {FrameAttached, FrameDetached}

\* the loader maps, the pending navigations and the records are as before
RestUnchanged(before) ==
    /\ loader_url_dict = before.loader_url_dict
    /\ frame_loader_dict = before.frame_loader_dict
    /\ frame_navigate_info_list = before.frame_navigate_info_list
    /\ parent_info_list = before.parent_info_list
    /\ url_fragment_dict = before.url_fragment_dict

FrameEventEffect(before, entry) ==
    /\ RestUnchanged(before)
    /\ IF entry.method = FrameAttached
       THEN /\ frame_parent_dict = Put(before.frame_parent_dict, entry.frameId, entry.parentFrameId)
            /\ frame_url_dict = before.frame_url_dict
       ELSE /\ frame_parent_dict = Pop(before.frame_parent_dict, entry.frameId)
            /\ frame_url_dict = Pop(before.frame_url_dict, entry.frameId)

AnchorInfo(before, entry) ==
    << entry.url, "Document", before.frame_url_dict[entry.frameId],
       "navigatedWithinDocument", entry.timestamp, entry.frameId >>

AnchorEffect(before, entry) ==
    IF entry.frameId \in DOMAIN before.frame_url_dict
    THEN /\ parent_info_list = Append(before.parent_info_list, AnchorInfo(before, entry))
         /\ frame_url_dict[entry.frameId] = entry.url
         /\ loader_url_dict[before.frame_loader_dict[entry.frameId]] = entry.url
         /\ frame_loader_dict = before.frame_loader_dict
    ELSE /\ parent_info_list = before.parent_info_list
         /\ frame_url_dict = before.frame_url_dict
         /\ frame_parent_dict = before.frame_parent_dict
         /\ RestUnchanged(before)

\* C27: a navigatedWithinDocument entry of a frame with a registered document
\* URL appends one record of kind Document whose parent is that URL and whose
\* mechanism is navigatedWithinDocument, and sets the URL of the frame and of
\* the frame's loader to the new URL; for a frame without a registered URL it
\* appends nothing and changes no map.
C27_AnchorNavigation ==
    (Processed /\ IsAnchor(LastEntry) /\ pc /= "raised") => AnchorEffect(Before, LastEntry)

\* frame G, attached under F and showing b.test, moves to the anchor b.test/#x
C27_Witness ==
    /\ Processed
    /\ LastEntry = anchorG
    /\ Emitted(Before)
    /\ LastInfo[3] = UrlB
    /\ frame_url_dict["G"] = UrlBx
    /\ loader_url_dict["L2"] = UrlBx

IsDownload(entry) == entry.method = DownloadWillBegin

\* the records with child URL download_url
DownloadHits(infos, download_url) == {k \in 1..Len(infos) : infos[k][1] = download_url}

Latest(hits) == CHOOSE k \in hits : \A m \in hits : m <= k

\* infos_after is infos_before with at most the kind of record `marked` changed
\* to Download (marked = 0: none)
OnlyKindOf(infos_before, infos_after, marked) ==
    /\ Len(infos_after) = Len(infos_before)
    /\ \A k \in 1..Len(infos_before) :
          IF k = marked
          THEN infos_after[k] = [infos_before[k] EXCEPT ![2] = "Download"]
          ELSE infos_after[k] = infos_before[k]

DownloadEffect(infos_before, hits) ==
    OnlyKindOf(infos_before, parent_info_list, IF hits = {} THEN 0 ELSE Latest(hits))

\* C28: a downloadWillBegin entry leaves the number and the order of the
\* records and every record's URLs, mechanism, timestamp and frame as they
\* were; it sets the kind of the record emitted last among those whose child
\* URL equals the download URL to Download, and changes nothing when there is
\* no such record.
C28_DownloadMarksLatest ==
    (Processed /\ IsDownload(LastEntry)) =>
        DownloadEffect(Before.parent_info_list,
                       DownloadHits(Before.parent_info_list, LastEntry.url))

\* b.test was requested twice before its download began
C28_Witness ==
    /\ Processed
    /\ LastEntry = dlB
    /\ Len(parent_info_list) = 3
    /\ parent_info_list[2][1] = UrlB
    /\ parent_info_list[2][2] = "Document"
    /\ parent_info_list[3][1] = UrlB
    /\ parent_info_list[3][2] = "Download"

-----------------------------------------------------------------------------
(* The Tree Builder on a list of records                                    *)

\* The first record of the resolver's list is the record of the first entry:
\* a root, or a root that a download entry has reclassified
BuilderRoots ==
    { <<UrlA, "Document", NoUrl, "root", 1, "F">>,
      <<UrlA, "Download", NoUrl, "root", 1, "F">> }

\* records that name the URL of another record as their parent, with and
\* without a fragment
BuilderItems ==
    { <<UrlB, "Document", UrlA, "other", 2, "F">>,
      <<UrlBx, "Document", UrlB, "navigatedWithinDocument", 3, "F">>,
      <<UrlC, "Script", UrlBx, "script", 4, "F">>,
      <<UrlC, "Script", UrlB, "script", 4, "F">>,
      <<UrlD, "Script", UrlC, "script", 5, "F">>,
      <<UrlA, "Document", UrlB, "other", 6, "F">> }

BuilderLists ==
    {<<>>} \cup {<<r>> \o t : r \in BuilderRoots, t \in SeqsUpTo(BuilderItems, MaxRecs)}

InitBuilder ==
    /\ pc = "build"
    /\ parent_info_list \in BuilderLists
    /\ raw_log = <<>>
    /\ ln = 0
    /\ has_filtered = FALSE
    /\ entry_list = <<>>
    /\ ri = 0
    /\ url_fragment_dict = EmptyDict
    /\ frame_parent_dict = EmptyDict
    /\ frame_url_dict = EmptyDict
    /\ loader_url_dict = EmptyDict
    /\ frame_loader_dict = EmptyDict
    /\ frame_navigate_info_list = <<>>
    /\ i = 0
    /\ nodes = <<>>
    /\ node_list = <<>>
    /\ tree = NoTree
    /\ final_url = NoUrl
    /\ covering_iframe = NoIframe
    /\ redirection_info = NoInfo
    /\ query = NoQuery
    /\ sessions = <<>>

NextBuilder ==
    \/ PipeBuildStep
    \/ PipeBuildReturn

SpecBuilder == InitBuilder /\ [][NextBuilder]_vars

-----------------------------------------------------------------------------
(* Properties of the Tree Builder on a list of records                      *)

IsRootInfo(info) == info[2] = "Document" /\ info[3] = NoUrl /\ info[4] = "root"

\* the parent of record k is located: its parent URL is the child URL of a
\* record among made, the earlier records that created a node
Located(infos, made, k) == \E m \in made : infos[m][1] = infos[k][3]

CreatingStep(infos, made, k) ==
    IF k = 1 THEN (IF IsRootInfo(infos[1]) THEN {1} ELSE {})
    ELSE IF Located(infos, made, k) THEN made \cup {k} ELSE made

\* the records among the first k that create a node
RECURSIVE Creating(_, _)
Creating(infos, k) ==
    IF k = 0 THEN {} ELSE CreatingStep(infos, Creating(infos, k - 1), k)

\* as C29 counts them: the first record creates the root whatever it is
CreatingAnyFirstStep(infos, made, k) ==
    IF k = 1 THEN {1}
    ELSE IF Located(infos, made, k) THEN made \cup {k} ELSE made

RECURSIVE CreatingAnyFirst(_, _)
CreatingAnyFirst(infos, k) ==
    IF k = 0 THEN {} ELSE CreatingAnyFirstStep(infos, CreatingAnyFirst(infos, k - 1), k)

\* the j-th record of made
Nth(made, j) == CHOOSE k \in made : Cardinality({m \in made : m < k}) = j - 1

Increasing(s) == \A a, b \in 1..Len(s) : a < b => s[a] < s[b]

\* node n was created for record info and hangs last-appended under a parent
\* whose URL and fragment are the record's parent URL
NodeOf(n, info) ==
    /\ nodes[n].url \o nodes[n].url_fragment = info[1]
    /\ nodes[n].timestamp = info[5]
    /\ IF n = 1 THEN nodes[n].parent = NoNode
       ELSE /\ nodes[n].parent \in 1..(n - 1)
            /\ nodes[nodes[n].parent].url \o nodes[nodes[n].parent].url_fragment = info[3]
            /\ \E c \in 1..Len(nodes[nodes[n].parent].children_list) :
                  nodes[nodes[n].parent].children_list[c] = n

OneNodePerCreating(infos, made) ==
    /\ Len(nodes) = Cardinality(made)
    /\ \A n \in 1..Len(nodes) : NodeOf(n, infos[Nth(made, n)]) /\ Increasing(nodes[n].children_list)

\* C29: a record after the first whose parent URL is the URL plus fragment
\* of no node created before it creates no node and is the parent of none,
\* every other record after the first creates one node, and so the number of
\* nodes is one (the first record's) plus the number of later records whose
\* parent was located.
C29_OnePlusLocated ==
    (pc = "built" /\ Len(parent_info_list) >= 1) =>
        Len(nodes) = Cardinality(CreatingAnyFirst(parent_info_list, Len(parent_info_list)))

\* What the builder does on every list: after the first i records there is
\* one node per record that is the first record and passes the root test, or
\* is a later record whose parent URL is the URL plus fragment of a node
\* created before it; the nodes are in record order, each is in the child
\* list of a parent that matches its record's parent URL, and every child
\* list is in record order.
OrphansDropped ==
    pc \in {"build", "built"} => OneNodePerCreating(parent_info_list, Creating(parent_info_list, i))

-----------------------------------------------------------------------------
(* search_node on the tree of a loop-back redirection                       *)

\* the records that may follow the loop: the tail records and a document
\* with a fragment under A or D
SearchTailItems ==
    TailItems \cup { <<UrlBx, "Document", p, "script", 6, "F">> : p \in {UrlA, UrlD} }

SearchBuildStep(item) ==
    /\ i < Len(LoopRecords) + MaxTail
    /\ item \in (IF i < Len(LoopRecords) THEN {LoopRecords[i + 1]} ELSE SearchTailItems)
    /\ Build(item)

\* the URLs that are looked up: as recorded, in capitals, with a fragment, unknown
SearchUrls == {UrlB, UrlBUpper, UrlBx, UrlE, UrlC}

\* A call of search_node on the built tree
SearchNode(url, allow_fragment) ==
    /\ pc = "built"
    /\ tree /= NoTree
    /\ query = NoQuery
    /\ query' = [op |-> "search_node", url |-> url, allow_fragment |-> allow_fragment,
                 result |-> search_node(nodes, tree, url, allow_fragment)]
    /\ UNCHANGED <<pc, logVars, resVars, treeVars, outVars, sessions>>

NextSearch ==
    \/ \E item \in SearchTailItems \cup {LoopRecords[k] : k \in 1..Len(LoopRecords)} :
           SearchBuildStep(item)
    \/ BuildReturn
    \/ \E url \in SearchUrls, allow_fragment \in BOOLEAN : SearchNode(url, allow_fragment)
    \/ \E url \in SearchUrls : Compose(url, NoIframe)

SpecSearch == InitTree /\ [][NextSearch]_vars

-----------------------------------------------------------------------------
(* Properties of search_node                                                *)

\* the nodes below and including n, a node before its children and the
\* children in the order of children_list
RECURSIVE PreOrder(_, _)
RECURSIVE PreOrderAll(_, _)
PreOrder(ns, n) == <<n>> \o PreOrderAll(ns, ns[n].children_list)
PreOrderAll(ns, children) ==
    IF children = <<>> THEN <<>>
    ELSE PreOrder(ns, Head(children)) \o PreOrderAll(ns, Tail(children))

Matches(ns, n, url, allow_fragment) ==
    url_cmp(IF allow_fragment THEN ns[n].url \o ns[n].url_fragment ELSE ns[n].url, url)

\* the first node of order that matches, NoNode when none does
FirstMatch(ns, order, url, allow_fragment) ==
    LET hits == {k \in 1..Len(order) : Matches(ns, order[k], url, allow_fragment)}
    IN  IF hits = {} THEN NoNode ELSE order[CHOOSE k \in hits : \A m \in hits : k <= m]

\* the chain the composer returns ends at node n (NoNode: it returns None)
ChainEndsAt(n) ==
    IF n = NoNode THEN redirection_info = NoInfo
    ELSE /\ redirection_info /= NoInfo
         /\ redirection_info.hops = nodes[n].depth - 1
         /\ redirection_info.inter_url_list[Len(redirection_info.inter_url_list)]
                = nodes[n].url \o nodes[n].url_fragment

SearchedNode == query.op = "search_node"

\* C30: search_node(url) returns the first node, a node before its children
\* and the children in the order they were found, whose URL (with the
\* fragment unless allow_fragment is False) matches url, and no node when none
\* matches; for the URL B of the loop A -> B -> C -> D -> B it returns the B
\* found first; and the chain of modify_redirection_info ends at the node
\* search_node(end_url) returns.
C30_FirstInPreOrder ==
    /\ SearchedNode =>
          query.result = FirstMatch(nodes, PreOrder(nodes, tree), query.url, query.allow_fragment)
    /\ (SearchedNode /\ query.url = UrlB /\ i >= Len(LoopRecords)) => query.result = 2
    /\ (pc = "done" /\ tree /= NoTree)
          => ChainEndsAt(FirstMatch(nodes, PreOrder(nodes, tree), final_url, TRUE))

\* the root has a second child labelled B and b.test is looked up: three
\* nodes match and the B right under the root, found first, is returned
C30_Witness ==
    /\ SearchedNode
    /\ query.url = UrlB
    /\ Len(nodes) >= 6
    /\ nodes[6].parent = 1
    /\ nodes[6].url = UrlB
    /\ nodes[5].url = UrlB
    /\ query.result = 2

-----------------------------------------------------------------------------
(* info_extraction.py: extract_initiators_from_tree                         *)

\* most call frames of an initiator's stack
MaxFrames == 2

tar_methods == {"anchorClick", "script", "scriptInitiated"}

\* entry['params']['initiator'] of the entry node_reverse_lookup returns:
\* `has` names the keys present ('url', 'stack'), callFrames holds the url of
\* each call frame
InitiatorDict(has, url, callFrames) == [has |-> has, url |-> url, callFrames |-> callFrames]

CallFrameUrls == {NoUrl, UrlB, UrlD}

InitiatorDicts ==
    { InitiatorDict(has, url, callFrames) :
        has \in SUBSET {"url", "stack"}, url \in {NoUrl, UrlB, UrlE},
        callFrames \in SeqsUpTo(CallFrameUrls, MaxFrames) }

\* the dicts a log holds: an absent key has no value, a url that is present
\* is not empty
LoggedInitiatorDicts ==
    { d \in InitiatorDicts :
        /\ ("url" \in d.has) = (d.url /= NoUrl)
        /\ "stack" \notin d.has => d.callFrames = <<>> }

\* for call_frame in callFrames: the first url that is not '', '' when none
RECURSIVE FirstCallFrameUrl(_)
FirstCallFrameUrl(callFrames) ==
    IF callFrames = <<>> THEN NoUrl
    ELSE IF Head(callFrames) /= NoUrl THEN Head(callFrames)
    ELSE FirstCallFrameUrl(Tail(callFrames))

StackOrParent(stack_url, parent_url) == IF stack_url = NoUrl THEN parent_url ELSE stack_url

\* initiator_url of lines 800-809
InitiatorUrl(cur_initiator_dict, parent_url) ==
    IF "url" \in cur_initiator_dict.has THEN cur_initiator_dict.url
    ELSE IF "stack" \in cur_initiator_dict.has
    THEN StackOrParent(FirstCallFrameUrl(cur_initiator_dict.callFrames), parent_url)
    ELSE NoUrl

\* One iteration of the loop over r_node_list[1:] for a node whose mechanism
\* is in tar_methods and whose entry has the initiator cur_initiator_dict
ExtractInitiator(node, cur_initiator_dict) ==
    /\ pc = "built"
    /\ tree /= NoTree
    /\ query = NoQuery
    /\ node /= tree
    /\ nodes[node].parent_source \in tar_methods
    /\ query' = [op |-> "extract_initiator", node |-> node,
                 initiator |-> cur_initiator_dict,
                 initiator_url |-> InitiatorUrl(cur_initiator_dict, nodes[nodes[node].parent].url),
                 result |-> get_initiator_node(
                                nodes, tree,
                                InitiatorUrl(cur_initiator_dict, nodes[nodes[node].parent].url),
                                node)]
    /\ UNCHANGED <<pc, logVars, resVars, treeVars, outVars, sessions>>

NextExtract ==
    \/ \E item \in TailItems \cup {LoopRecords[k] : k \in 1..Len(LoopRecords)} : LoopStep(item)
    \/ BuildReturn
    \/ \E node \in 1..Len(nodes), cur_initiator_dict \in LoggedInitiatorDicts :
           ExtractInitiator(node, cur_initiator_dict)

SpecExtract == InitTree /\ [][NextExtract]_vars

\* what C31 promises: the explicit URL, else the first call frame URL that
\* is not empty, else the parent node's URL
PromisedInitiatorUrl(cur_initiator_dict, parent_url) ==
    IF "url" \in cur_initiator_dict.has THEN cur_initiator_dict.url
    ELSE IF \E k \in 1..Len(cur_initiator_dict.callFrames) : cur_initiator_dict.callFrames[k] /= NoUrl
    THEN cur_initiator_dict.callFrames[
             CHOOSE k \in 1..Len(cur_initiator_dict.callFrames) :
                 /\ cur_initiator_dict.callFrames[k] /= NoUrl
                 /\ \A m \in 1..(k - 1) : cur_initiator_dict.callFrames[m] = NoUrl]
    ELSE parent_url

\* C31: the URL handed to get_initiator_node for a node other than the root
\* is the initiator's url field when it is present, otherwise the first URL
\* of the call stack that is not empty, otherwise -- no such URL, or no stack
\* at all -- the URL of the node's parent; it is never empty.
C31_InitiatorUrlNeverEmpty ==
    query.op = "extract_initiator" =>
        /\ query.initiator_url
               = PromisedInitiatorUrl(query.initiator, nodes[nodes[query.node].parent].url)
        /\ query.initiator_url /= NoUrl

-----------------------------------------------------------------------------
(* info_extraction.py: get_iframe_info                                      *)

\* most lines of redirection_tags.txt
MaxTagLines == 2

\* main_rect = {'x': 0, 'y': 0, 'width': 1664, 'height': 919}
MainWidth == 1664
MainHeight == 919

Rect(x, y, width, height) == [x |-> x, y |-> y, width |-> width, height |-> height]

main_rect == Rect(0, 0, MainWidth, MainHeight)
main_area == main_rect.width * main_rect.height

\* intersect_ratio = 0.4, kept as a fraction
intersect_ratio == [num |-> 2, den |-> 5]

Max2(a, b) == IF a >= b THEN a ELSE b
Min2(a, b) == IF a <= b THEN a ELSE b

\* The intersection with its width and height cut off at zero
get_intersect_rect_clipped(rect1, rect2) ==
    Rect(Max2(rect1.x, rect2.x),
         Max2(rect1.y, rect2.y),
         Max2(0, Min2(rect1.x + rect1.width, rect2.x + rect2.width) - Max2(rect1.x, rect2.x)),
         Max2(0, Min2(rect1.y + rect1.height, rect2.y + rect2.height) - Max2(rect1.y, rect2.y)))

\* get_intersect_rect: tl_y = max(rect1['x'], rect2['y']), and width and
\* height are differences that may be negative
get_intersect_rect(rect1, rect2) ==
    Rect(Max2(rect1.x, rect2.x),
         Max2(rect1.x, rect2.y),
         Min2(rect1.x + rect1.width, rect2.x + rect2.width) - Max2(rect1.x, rect2.x),
         Min2(rect1.y + rect1.height, rect2.y + rect2.height) - Max2(rect1.x, rect2.y))

\* intersect_area >= intersect_ratio * main_area
ExceedsRatio(intersect_rect) ==
    intersect_rect.width * intersect_rect.height * intersect_ratio.den
        >= intersect_ratio.num * main_area

\* A line of redirection_tags.txt: the tag type, the visibility digit, the
\* list of rects and the src of the tag's markup (NoUrl: no tag with a src, or
\* a blank src)
TagLine(tag_type, visibility, tag_rect_list, src) ==
    [tag_type |-> tag_type, visibility |-> visibility, tag_rect_list |-> tag_rect_list, src |-> src]

\* iframes left of, inside, across and beyond the viewport
IframeRects ==
    { Rect(x, y, width, height) :
        x \in {-100, 0, 3000}, y \in {0, 2000}, width \in {100, 1664}, height \in {100, 919} }

TagLines ==
    {TagLine("a", 1, <<main_rect>>, UrlB)}
        \cup { TagLine("iframe", visibility, tag_rect_list, src) :
                 visibility \in {0, 1}, src \in {NoUrl, UrlB, UrlC},
                 tag_rect_list \in {<<>>, <<Rect(0, 0, 100, 100), main_rect>>}
                                       \cup {<<r>> : r \in IframeRects} }

\* is_visible = int(line[2]), eval(line[3]) is a tuple, which is never == 0
IsInvisible(line) == FALSE

\* the loop body: iframe_info_list after the line
TagLineInfo(iframe_info_list, line) ==
    IF line.tag_type /= "iframe" THEN iframe_info_list
    ELSE IF IsInvisible(line) \/ line.tag_rect_list = <<>> THEN iframe_info_list
    ELSE IF ~ExceedsRatio(get_intersect_rect(main_rect, line.tag_rect_list[1]))
    THEN iframe_info_list
    ELSE IF line.src = NoUrl THEN iframe_info_list
    ELSE Append(iframe_info_list, <<line.tag_rect_list[1], line.src>>)

\* get_iframe_info: one line of the file is read
TagLineStep(line) ==
    /\ pc = "tags"
    /\ ln < MaxTagLines
    /\ ln' = ln + 1
    /\ query' = [op |-> "get_iframe_info",
                 iframe_info_list |->
                     TagLineInfo(IF query = NoQuery THEN <<>> ELSE query.iframe_info_list, line)]
    /\ UNCHANGED <<pc, raw_log, has_filtered, entry_list, resVars, treeVars, outVars, sessions>>

\* get_iframe_info: the file is exhausted, return iframe_info_list
TagsReturn ==
    /\ pc = "tags"
    /\ pc' = "tagged"
    /\ query' = IF query = NoQuery
                THEN [op |-> "get_iframe_info", iframe_info_list |-> <<>>] ELSE query
    /\ UNCHANGED <<logVars, resVars, treeVars, outVars, sessions>>

NextIframe ==
    \/ \E line \in TagLines : TagLineStep(line)
    \/ TagsReturn

SpecIframe == InitOn("tags", <<>>) /\ [][NextIframe]_vars

\* the area the rect shares with the viewport
OverlapArea(rect) ==
    LET shared == get_intersect_rect_clipped(main_rect, rect)
    IN  shared.width * shared.height

\* C32: every iframe that get_iframe_info reports shares with the 1664x919
\* viewport an area of at least 0.4 of the viewport's area; an iframe whose
\* rect does not overlap the viewport is never reported.
C32_CoversViewport ==
    query.op = "get_iframe_info" =>
        \A k \in 1..Len(query.iframe_info_list) :
            OverlapArea(query.iframe_info_list[k][1]) * intersect_ratio.den
                >= intersect_ratio.num * main_area

-----------------------------------------------------------------------------
(* The Tree Builder on a loop followed by records out of timestamp order    *)

\* records that name B or D as their parent, captured after the loop
\* (timestamp 6) or logged late (timestamp 3, between B and C)
LateItems ==
    { <<u, k, p, "script", t, "F">> :
        u \in {UrlE, UrlB}, k \in TreeKinds, p \in {UrlB, UrlD}, t \in {3, 6} }

LateStep(item) ==
    /\ i < Len(LoopRecords) + MaxTail
    /\ item \in (IF i < Len(LoopRecords) THEN {LoopRecords[i + 1]} ELSE LateItems)
    /\ Build(item)

NextLate ==
    \/ \E item \in LateItems \cup {LoopRecords[k] : k \in 1..Len(LoopRecords)} : LateStep(item)
    \/ BuildReturn

SpecLate == InitTree /\ [][NextLate]_vars

\* the nodes created before n that carry the URL of n's parent
ParentCandidates(n) ==
    {m \in 1..(n - 1) : FullUrl(m) = FullUrl(nodes[n].parent)}

Nearest(n, m, candidates) ==
    \A c \in candidates :
        Abs(nodes[n].timestamp - nodes[m].timestamp) <= Abs(nodes[n].timestamp - nodes[c].timestamp)

InTimestampOrder(n) == \A a, b \in 1..n : a < b => nodes[a].timestamp <= nodes[b].timestamp

-----------------------------------------------------------------------------
(* extract_target_entries: what a load-failed record removes                 *)

\* the positions of entries holding a request-sent record with identifier id
SentPositions(entries, id) ==
    {k \in 1..Len(entries) :
        entries[k].method = RequestWillBeSent /\ entries[k].requestId = id}

\* the greatest member of a non-empty set of positions
LastPosition(positions) == CHOOSE k \in positions : \A m \in positions : m <= k

\* entries with the record at position k taken out
Without(entries, k) == SubSeq(entries, 1, k - 1) \o SubSeq(entries, k + 1, Len(entries))

\* C34: a handled load-failed record removes at most one accumulated record,
\* the request-sent record with its request identifier at the greatest
\* position; every other record, earlier request-sent records with that
\* identifier included, keeps its place, and the load-failed record is
\* appended as the last record.
C34_RemovesAtMostOne ==
    FailedHandled =>
        /\ Len(entry_list) \in {Len(EntriesAfter(raw_log, ln - 1)),
                                Len(EntriesAfter(raw_log, ln - 1)) + 1}
        /\ entry_list[Len(entry_list)] = raw_log[ln]
        /\ IF SentPositions(EntriesAfter(raw_log, ln - 1), raw_log[ln].requestId) = {}
           THEN entry_list = Append(EntriesAfter(raw_log, ln - 1), raw_log[ln])
           ELSE entry_list =
                    Append(Without(EntriesAfter(raw_log, ln - 1),
                                   LastPosition(SentPositions(EntriesAfter(raw_log, ln - 1),
                                                        raw_log[ln].requestId))),
                           raw_log[ln])

\* two request-sent records share the identifier of the load-failed record:
\* the later one is removed and the earlier one stays
C34_Witness ==
    /\ FailedHandled
    /\ ln = 3
    /\ SubSeq(raw_log, 1, 3) = <<reqA, redirAB, failR1>>
    /\ entry_list = <<reqA, failR1>>

-----------------------------------------------------------------------------
(* build_redirection_tree: when a tree is returned                          *)

\* first records of every shape: the three conditions of the root test hold
\* or fail one by one
FirstRecords ==
    { <<UrlA, k, p, m, 1, "F">> :
        k \in {"Document", "Download", "Script"}, p \in {NoUrl, UrlA}, m \in {"root", "script"} }

RootLists ==
    {<<>>} \cup {<<r>> \o t : r \in FirstRecords, t \in SeqsUpTo(BuilderItems, MaxRecs)}

InitRoot ==
    /\ pc = "build"
    /\ parent_info_list \in RootLists
    /\ raw_log = <<>>
    /\ ln = 0
    /\ has_filtered = FALSE
    /\ entry_list = <<>>
    /\ ri = 0
    /\ url_fragment_dict = EmptyDict
    /\ frame_parent_dict = EmptyDict
    /\ frame_url_dict = EmptyDict
    /\ loader_url_dict = EmptyDict
    /\ frame_loader_dict = EmptyDict
    /\ frame_navigate_info_list = <<>>
    /\ i = 0
    /\ nodes = <<>>
    /\ node_list = <<>>
    /\ tree = NoTree
    /\ final_url = NoUrl
    /\ covering_iframe = NoIframe
    /\ redirection_info = NoInfo
    /\ query = NoQuery
    /\ sessions = <<>>

NextRoot ==
    \/ PipeBuildStep
    \/ PipeBuildReturn

SpecRoot == InitRoot /\ [][NextRoot]_vars

\* C35: build_redirection_tree returns a tree exactly when the list is not
\* empty and its first record is of kind Document with an empty parent and
\* mechanism root; then the root is the node of that record.  In every other
\* case, a first record of kind Download included, no node is created and
\* the result is no tree.
C35_TreeIffRootFirst ==
    pc = "built" =>
        IF parent_info_list /= <<>> /\ IsRootInfo(parent_info_list[1])
        THEN /\ tree /= NoTree
             /\ nodes[tree].url = parent_info_list[1][1]
             /\ nodes[tree].parent = NoNode
        ELSE /\ tree = NoTree
             /\ nodes = <<>>
             /\ node_list = <<>>

\* a first record of kind Download followed by a record that names its URL as
\* parent: nothing is built
C35_Witness ==
    /\ pc = "built"
    /\ Len(parent_info_list) >= 2
    /\ parent_info_list[1] = <<UrlA, "Download", NoUrl, "root", 1, "F">>
    /\ parent_info_list[2][3] = UrlA
    /\ tree = NoTree

-----------------------------------------------------------------------------
(* The chain record modify_redirection_info returns                          *)

\* C36: in every chain record the composer returns, the URL list and the
\* mechanism list are equally long, hops is that length minus one (with and
\* without the entry and the hop of a covering iframe), the first URL is the
\* URL of the root and the first mechanism is root.
C36_ParallelLists ==
    (pc = "done" /\ redirection_info.t = "list") =>
        /\ Len(redirection_info.inter_url_list) = Len(redirection_info.inter_method_list)
        /\ Len(redirection_info.inter_url_list) >= 1
        /\ redirection_info.hops = Len(redirection_info.inter_url_list) - 1
        /\ redirection_info.inter_url_list[1] = nodes[tree].url \o nodes[tree].url_fragment
        /\ redirection_info.inter_method_list[1] = "root"

\* a chain A -> B with the entry of a covering iframe whose src is B
C36_Witness ==
    /\ pc = "done"
    /\ covering_iframe = IframeSrc(UrlB)
    /\ redirection_info.t = "list"
    /\ redirection_info.has_large_iframe
    /\ redirection_info.inter_url_list = <<UrlA, UrlB, UrlB>>
    /\ redirection_info.hops = 2

-----------------------------------------------------------------------------
(* modify_redirection_info: a covering iframe whose src is no http(s) URL   *)

\* the first covering iframe has a src that get_valid_url turns into None
\* (about:blank, javascript:..., ftp://...: line 597 and general_funcs.py
\* lines 76-77)
IframeSrcNone == [t |-> "src_none"]

\* modify_redirection_info from line 529 on.  The returns of lines 528-535
\* come first; then search_node(None) compares the root's URL with None, and
\* url_cmp raises on unquote(None).
ComposeCovering(infos, ns, root, end_url, large_iframe) ==
    IF large_iframe = IframeSrcNone
    THEN IF ComposeChain(infos, ns, root, end_url, NoIframe) = NoInfo
         THEN NoInfo
         ELSE [t |-> "raised"]
    ELSE ComposeChain(infos, ns, root, end_url, large_iframe)

ComposeCovered(url, iframe) ==
    /\ pc = "built"
    /\ final_url' = url
    /\ covering_iframe' = iframe
    /\ redirection_info' = ComposeCovering(parent_info_list, nodes, tree, url, iframe)
    /\ pc' = "done"
    /\ UNCHANGED <<logVars, resVars, treeVars, query, sessions>>

NextCover ==
    \/ NormalizeStep
    \/ NormalizeReturn
    \/ ResolveStep
    \/ ReconcileStep
    \/ PipeBuildStep
    \/ PipeBuildReturn
    \/ \E url \in EndUrls, iframe \in LargeIframes \cup {IframeSrcNone} : ComposeCovered(url, iframe)

SpecCover == InitPipe /\ [][NextCover]_vars

\* the nodes whose URL with fragment is the resolved URL of the covering iframe
IframeNodes ==
    IF covering_iframe.t = "src"
    THEN {n \in NodeIds : url_cmp(FullUrl(n), covering_iframe.url)}
    ELSE {}

\* C37: with a covering iframe whose resolved URL matches no node of the
\* tree, the composer returns no chain although a node matches the final
\* URL; a chain returned with a covering iframe has a node labelled with the
\* iframe's URL.
C37_NoChainWithoutNode ==
    (pc = "done" /\ covering_iframe /= NoIframe) =>
        /\ (tree /= NoTree /\ EndNodes /= {} /\ IframeNodes = {}) => redirection_info = NoInfo
        /\ redirection_info.t = "list" => IframeNodes /= {}

-----------------------------------------------------------------------------
(* info_extraction.py: dump_samples and recover_tree                         *)

\* RedirectionTree.bfs_traverse: queue.pop(0), then the children are queued
RECURSIVE BfsFrom(_, _, _)
BfsFrom(ns, queue, visited) ==
    IF queue = <<>> THEN visited
    ELSE BfsFrom(ns, Tail(queue) \o ns[Head(queue)].children_list, Append(visited, Head(queue)))

bfs_traverse(ns, root) == BfsFrom(ns, <<root>>, <<>>)

DigitChars == <<"0", "1", "2", "3", "4", "5", "6", "7", "8", "9">>

\* str(n) of a natural number: its decimal digits
RECURSIVE DecimalStr(_)
DecimalStr(n) ==
    IF n < 10 THEN <<DigitChars[n + 1]>>
    ELSE Append(DecimalStr(n \div 10), DigitChars[(n % 10) + 1])

DigitValue(c) == CHOOSE d \in 0..9 : DigitChars[d + 1] = c

\* int(s) of a text of decimal digits
RECURSIVE DecimalInt(_)
DecimalInt(s) ==
    IF Len(s) = 1 THEN DigitValue(s[1])
    ELSE 10 * DecimalInt(SubSeq(s, 1, Len(s) - 1)) + DigitValue(s[Len(s)])

\* the position of node n in the traversal
PositionIn(order, n) == CHOOSE j \in 1..Len(order) : order[j] = n

\* node_id_dict[node] = 'node_' + str(j)
NodeIdIn(order, n) == <<"node_">> \o DecimalStr(PositionIn(order, n) - 1)

\* cur_node_info of dump_samples without domain, label and source: the line
\* of the file, which recover_tree splits at the tabs again
DumpRow(ns, order, n) ==
    [ node_id |-> NodeIdIn(order, n),
      url |-> ns[n].url \o ns[n].url_fragment,
      parent_id |-> IF ns[n].parent /= NoNode THEN NodeIdIn(order, ns[n].parent) ELSE <<>>,
      parent_source |-> ns[n].parent_source,
      resource_type |-> ns[n].resource_type,
      timestamp |-> DecimalStr(ns[n].timestamp),
      children_id_list |->
          [k \in 1..Len(ns[n].children_list) |-> NodeIdIn(order, ns[n].children_list[k])] ]

DumpOrder(ns, order) == [j \in 1..Len(order) |-> DumpRow(ns, order, order[j])]

\* the lines dump_samples writes for one tree
dump_samples(ns, root) == DumpOrder(ns, bfs_traverse(ns, root))

\* The loop body of recover_tree with the URL of a child kept whole
RecoverIterUnsplit(st, idx, node_info) ==
    IF idx = 0 /\ node_info.node_id = <<"node_", "0">>
    THEN [ nodes |-> Append(st.nodes,
                            Node(st.nodes, node_info.url, <<>>, NoNode, node_info.parent_source,
                                 node_info.resource_type, DecimalInt(node_info.timestamp))),
           tree |-> Len(st.nodes) + 1,
           node_dict |-> Put(st.node_dict, node_info.node_id, Len(st.nodes) + 1),
           stopped |-> FALSE ]
    ELSE IF node_info.parent_id \notin DOMAIN st.node_dict
    THEN [st EXCEPT !.tree = NoTree, !.stopped = TRUE]
    ELSE [ nodes |-> add_node(Append(st.nodes,
                                     Node(st.nodes, node_info.url, <<>>,
                                          st.node_dict[node_info.parent_id],
                                          node_info.parent_source, node_info.resource_type,
                                          DecimalInt(node_info.timestamp))),
                              Len(st.nodes) + 1),
           tree |-> st.tree,
           node_dict |-> Put(st.node_dict, node_info.node_id, Len(st.nodes) + 1),
           stopped |-> FALSE ]

\* one iteration of the loop of recover_tree over the lines of a sample
RecoverIter(st, idx, node_info) ==
    IF idx = 0 /\ node_info.node_id = <<"node_", "0">>
    THEN [ nodes |-> Append(st.nodes,
                            Node(st.nodes, node_info.url, <<>>, NoNode, node_info.parent_source,
                                 node_info.resource_type, DecimalInt(node_info.timestamp))),
           tree |-> Len(st.nodes) + 1,
           node_dict |-> Put(st.node_dict, node_info.node_id, Len(st.nodes) + 1),
           stopped |-> FALSE ]
    ELSE IF node_info.parent_id \notin DOMAIN st.node_dict
    THEN [st EXCEPT !.tree = NoTree, !.stopped = TRUE]
    ELSE [ nodes |-> add_node(Append(st.nodes,
                                     Node(st.nodes, BeforeHash(node_info.url),
                                          FromHash(node_info.url),
                                          st.node_dict[node_info.parent_id],
                                          node_info.parent_source, node_info.resource_type,
                                          DecimalInt(node_info.timestamp))),
                              Len(st.nodes) + 1),
           tree |-> st.tree,
           node_dict |-> Put(st.node_dict, node_info.node_id, Len(st.nodes) + 1),
           stopped |-> FALSE ]

RecoverInit == [nodes |-> <<>>, tree |-> NoTree, node_dict |-> EmptyDict, stopped |-> FALSE]

RECURSIVE RecoverFrom(_, _, _)
RecoverFrom(st, idx, rows) ==
    IF idx >= Len(rows) \/ st.stopped THEN st
    ELSE RecoverFrom(RecoverIter(st, idx, rows[idx + 1]), idx + 1, rows)

\* recover_tree on the lines of one sample
recover_tree(rows) == RecoverFrom(RecoverInit, 0, rows)

\* the records of the trees that are dumped: the loop, or a root whose URL
\* has a fragment, and what follows
DumpBuildStep(item) ==
    /\ i < Len(LoopRecords) + MaxTail
    /\ item \in (IF i = 0 THEN {LoopRecords[1], <<UrlAx, "Document", NoUrl, "root", 120, "F">>}
                 ELSE IF i < Len(LoopRecords) THEN {LoopRecords[i + 1]}
                 ELSE SearchTailItems)
    /\ Build(item)

\* dump_samples on the built tree (if not r_tree: continue)
DumpSamples ==
    /\ pc = "built"
    /\ tree /= NoTree
    /\ query = NoQuery
    /\ query' = [op |-> "dump_samples", rows |-> dump_samples(nodes, tree)]
    /\ UNCHANGED <<pc, logVars, resVars, treeVars, outVars, sessions>>

\* recover_tree on the lines that were written
RecoverTree ==
    /\ pc = "built"
    /\ query.op = "dump_samples"
    /\ query' = [op |-> "recover_tree", rows |-> query.rows, result |-> recover_tree(query.rows)]
    /\ UNCHANGED <<pc, logVars, resVars, treeVars, outVars, sessions>>

NextDump ==
    \/ \E item \in SearchTailItems \cup {LoopRecords[k] : k \in 1..Len(LoopRecords)}
                   \cup {<<UrlAx, "Document", NoUrl, "root", 120, "F">>} : DumpBuildStep(item)
    \/ BuildReturn
    \/ DumpSamples
    \/ RecoverTree

SpecDump == InitTree /\ [][NextDump]_vars

\* node r of the recovered tree is node n of the built tree, with the
\* positions in the traversal for the nodes
SameNode(ns, order, n, r) ==
    /\ r.url = ns[n].url
    /\ r.url_fragment = ns[n].url_fragment
    /\ r.parent_source = ns[n].parent_source
    /\ r.resource_type = ns[n].resource_type
    /\ r.timestamp = ns[n].timestamp
    /\ r.depth = ns[n].depth
    /\ r.parent = (IF ns[n].parent = NoNode THEN NoNode ELSE PositionIn(order, ns[n].parent))
    /\ r.children_list =
           [k \in 1..Len(ns[n].children_list) |-> PositionIn(order, ns[n].children_list[k])]

SameTree(ns, root, order, recovered) ==
    /\ Len(order) = Len(ns)
    /\ \A n \in 1..Len(ns) : \E j \in 1..Len(order) : order[j] = n
    /\ order[1] = root
    /\ recovered.tree = 1
    /\ ~recovered.stopped
    /\ Len(recovered.nodes) = Len(ns)
    /\ \A j \in 1..Len(order) : SameNode(ns, order, order[j], recovered.nodes[j])
    /\ \A j \in 2..Len(order) : PositionIn(order, ns[order[j]].parent) < j

\* C38: the tree recovered from the dump of a built tree is the built tree
\* with its nodes numbered in breadth-first order: the same root, for every
\* node the same parent, the same children in the same order, the same URL
\* and fragment, mechanism, kind, timestamp and depth; the parent of every
\* node stands before it in the dump and recovery meets no unknown parent
\* identifier.
C38_RecoveredIsBuilt ==
    query.op = "recover_tree" =>
        SameTree(nodes, tree, bfs_traverse(nodes, tree), query.result)

\* a tree of seven nodes with a fragment whose breadth-first order is not the
\* order in which the nodes were made
C38_Witness ==
    /\ query.op = "recover_tree"
    /\ Len(nodes) = 7
    /\ bfs_traverse(nodes, tree) /= [n \in 1..7 |-> n]
    /\ \E n \in 1..7 : nodes[n].url_fragment /= <<>>
    /\ query.result.tree = 1

-----------------------------------------------------------------------------
(* The reconciliation pass: which records it overwrites                      *)

\* sessions in which two navigations of the frame are followed by further
\* navigations and requests
InitOverwrite ==
    \E first \in {navB, navC, navBLate}, second \in {navB, navC, navBLate},
       extra \in SeqsUpTo(MenuReconcile, MaxLog) :
        InitOn("normalize", <<reqA, first, second>> \o extra)

SpecOverwrite == InitOverwrite /\ [][NextPipe]_vars

\* the list the loop of get_parent_info leaves to the reconciliation pass
Unreconciled(entries) == ResolveFrom(ResolverInit, 0, entries).parent_info_list

\* matched[k] is the record item k overwrites, 0 when it overwrites none:
\* never the first record, and in item order the records are further and
\* further down the list
IncreasingMatches(matched) ==
    /\ \A k \in DOMAIN matched : matched[k] /= 0 => matched[k] >= 2
    /\ \A j \in DOMAIN matched, k \in DOMAIN matched :
        (j < k /\ matched[j] /= 0 /\ matched[k] /= 0) => matched[j] < matched[k]

\* after is before with the mechanism of record matched[k] set to the reason
\* of item k, the other records and fields as they were
OverwrittenAt(before, navigations, matched, after) ==
    /\ Len(after) = Len(before)
    /\ \A r \in 1..Len(before) :
        IF \E k \in DOMAIN matched : matched[k] = r
        THEN \E k \in DOMAIN matched :
                /\ matched[k] = r
                /\ after[r] = [before[r] EXCEPT ![4] = navigations[k][3]]
        ELSE after[r] = before[r]

OverwrittenOnce(before, navigations, after) ==
    \E matched \in [1..Len(navigations) -> 0..Len(before)] :
        /\ IncreasingMatches(matched)
        /\ OverwrittenAt(before, navigations, matched, after)

\* C39: the reconciliation pass overwrites the mechanism of at most one
\* record per pending item and no record for two items, the overwritten
\* records stand in the list in the order of their items, and the first
\* record is not among them: a root record keeps the mechanism root.
C39_OneRecordPerItem ==
    pc = "build" =>
        /\ OverwrittenOnce(Unreconciled(entry_list), frame_navigate_info_list, parent_info_list)
        /\ parent_info_list /= <<>> => parent_info_list[1] = Unreconciled(entry_list)[1]
        /\ (parent_info_list /= <<>> /\ Unreconciled(entry_list)[1][4] = "root")
               => parent_info_list[1][4] = "root"

\* two navigations overwrite the records of their two requests
C39_Witness ==
    /\ pc = "build"
    /\ entry_list = <<reqA, navB, navC, reqB, reqC>>
    /\ Len(parent_info_list) = 3
    /\ parent_info_list[1][4] = "root"
    /\ parent_info_list[2][4] = "httpHeaderRefresh"
    /\ parent_info_list[3][4] = "scriptInitiated"

-----------------------------------------------------------------------------
(* The maps of get_parent_info: frames with a document URL have a loader     *)

\* C40: after every prefix of the entries, each frame with a registered
\* document URL has a registered loader: the keys of frame_url_dict are keys
\* of frame_loader_dict.  A navigatedWithinDocument entry that passes the
\* frame-URL check therefore finds the loader of its frame and never raises.
C40_UrlFramesHaveLoader ==
    /\ DOMAIN frame_url_dict \subseteq DOMAIN frame_loader_dict
    /\ (Processed /\ IsAnchor(LastEntry)) => pc /= "raised"

\* the main frame moves to an anchor of its document: its loader L1 is found
\* and takes the new URL
C40_Witness ==
    /\ Processed
    /\ LastEntry = anchorF
    /\ "F" \in DOMAIN Before.frame_url_dict
    /\ frame_url_dict["F"] = UrlAx
    /\ frame_loader_dict["F"] = "L1"
    /\ loader_url_dict["L1"] = UrlAx

=============================================================================
